---------------------------- MODULE Spec2Model ----------------------------
(***************************************************************************)
(* A model of the MText tokenizer of src/src/parser.ts: the TextScanner,   *)
(* the MTextContext value objects (kept in a heap so that aliasing is      *)
(* visible), and the generator MTextParser.parse() with the loop of its    *)
(* inner function nextToken().                                             *)
(*                                                                         *)
(* Text is a sequence of one-character strings.  Glyphs outside ASCII are  *)
(* written as named characters (BOX for U+25AF and so on).  A number is a  *)
(* decimal m * 10^e kept normalised (m has no trailing zero, zero is 0e0). *)
(***************************************************************************)
EXTENDS Integers, Sequences, FiniteSets, TLC

(***************************************************************************)
(* Bounds of the model.                                                    *)
(***************************************************************************)
\* longest input, in lexemes, of the specification Spec
MaxUnits == 4
\* longest input, in lexemes, of the specification GroupSpec
MaxGroupUnits == 5
\* longest input, in lexemes, of the specification PropSpec
MaxPropUnits == 4
\* the tab-stop list of one paragraph command is cut at this length
MaxTabStops == 3
\* longest input, in lexemes, of the specification AciSpec
MaxAciUnits == 5
\* longest input, in lexemes, of the specification RgbSpec
MaxRgbUnits == 4
\* longest input, in lexemes, of the specification FactorSpec
MaxFactorUnits == 4
\* longest input, in lexemes, of the specification ParaSpec
MaxParaUnits == 4
\* longest input, in lexemes, of the specification FontSpec
MaxFontUnits == 5
\* longest input, in lexemes, of the specification StackSpec
MaxStackUnits == 5

(***************************************************************************)
(* Characters.                                                             *)
(***************************************************************************)
NUL == ""
BACKSLASH == "\\"
BOX == "BOX"
DIAMETER == "DIAMETER"
DEGREE == "DEGREE"
PLUSMINUS == "PLUSMINUS"

\* the characters with charCodeAt(0) < 32 that inputs are drawn from
ControlChars == {"\t", "\n", "\r"}

Digits == {"0", "1", "2", "3", "4", "5", "6", "7", "8", "9"}

DigitVal(c) ==
  CASE c = "0" -> 0 [] c = "1" -> 1 [] c = "2" -> 2 [] c = "3" -> 3
    [] c = "4" -> 4 [] c = "5" -> 5 [] c = "6" -> 6 [] c = "7" -> 7
    [] c = "8" -> 8 [] c = "9" -> 9

Min(a, b) == IF a < b THEN a ELSE b
Max(a, b) == IF a > b THEN a ELSE b


(***************************************************************************)
(* TextScanner: the text t and the index i (0-based, as in the source).    *)
(***************************************************************************)
HasData(t, i) == i < Len(t)

IsEmpty(t, i) == i >= Len(t)

Consume(t, i, count) == Max(0, Min(i + count, Len(t)))

Peek(t, i, offset) ==
  LET index == i + offset
  IN IF index >= Len(t) \/ index < 0 THEN NUL ELSE t[index + 1]

\* a mutation of Get: the index goes on at the end of the text too
GetAdvancing(t, i) == [char |-> Peek(t, i, 0), index |-> i + 1]

\* get(): the character read and the index after it
Get(t, i) ==
  IF IsEmpty(t, i) THEN [char |-> NUL, index |-> i]
  ELSE [char |-> t[i + 1], index |-> i + 1]

TailOf(t, i) == SubSeq(t, i + 1, Len(t))

RECURSIVE FindFrom(_, _, _, _)
FindFrom(t, index, char, escape) ==
  IF index >= Len(t) THEN -1
  ELSE IF escape /\ t[index + 1] = BACKSLASH
       THEN IF index + 1 < Len(t)
            THEN IF t[index + 2] = char THEN index + 1
                 ELSE FindFrom(t, index + 2, char, escape)
            ELSE FindFrom(t, index + 1, char, escape)
       ELSE IF t[index + 1] = char THEN index
            ELSE FindFrom(t, index + 1, char, escape)

Find(t, i, char, escape) == FindFrom(t, i, char, escape)

(***************************************************************************)
(* Numbers and the regular expressions that read them.                     *)
(***************************************************************************)
RECURSIVE Normalise(_, _)
Normalise(m, e) ==
  IF m = 0 THEN [m |-> 0, e |-> 0]
  ELSE IF m % 10 = 0 THEN Normalise(m \div 10, e + 1)
  ELSE [m |-> m, e |-> e]

Num(k) == Normalise(k, 0)

Abs(n) == [m |-> IF n.m < 0 THEN 0 - n.m ELSE n.m, e |-> n.e]

\* the number of digits of s from position k (1-based) on
RECURSIVE DigitRun(_, _)
DigitRun(s, k) ==
  IF k <= Len(s) /\ s[k] \in Digits THEN 1 + DigitRun(s, k + 1) ELSE 0

\* the value of a run of digits, the decimal way
RECURSIVE DigitsValue(_)
DigitsValue(ds) ==
  IF ds = << >> THEN 0
  ELSE 10 * DigitsValue(SubSeq(ds, 1, Len(ds) - 1)) + DigitVal(ds[Len(ds)])

\* the value of a run of digits modulo n, digit by digit
RECURSIVE DigitsValueMod(_, _)
DigitsValueMod(ds, n) ==
  IF ds = << >> THEN 0
  ELSE (10 * DigitsValueMod(SubSeq(ds, 1, Len(ds) - 1), n) + DigitVal(ds[Len(ds)])) % n

\* the value of a run of digits, or cap if the value is larger
RECURSIVE DigitsValueUpTo(_, _)
DigitsValueUpTo(ds, cap) ==
  IF ds = << >> THEN 0
  ELSE Min(cap, 10 * DigitsValueUpTo(SubSeq(ds, 1, Len(ds) - 1), cap) + DigitVal(ds[Len(ds)]))

At(s, k) == IF k >= 1 /\ k <= Len(s) THEN s[k] ELSE NUL

\* The parts of the longest prefix of s matching
\*   [+-]? ( \d+ (\.\d*)? | \.\d+ ) ([eE][+-]?\d+)? x?
\* where the form with a leading dot is read only if leadingDot and the
\* final x only if relative.  len = 0 means no match.
FloatMatch(s, leadingDot, relative) ==
  LET signLen == IF At(s, 1) \in {"+", "-"} THEN 1 ELSE 0
      intLen == DigitRun(s, signLen + 1)
      afterInt == signLen + intLen
      dotted == At(s, afterInt + 1) = "."
      fracAfterInt == IF dotted THEN DigitRun(s, afterInt + 2) ELSE 0
      fracLead == IF At(s, signLen + 1) = "." THEN DigitRun(s, signLen + 2) ELSE 0
      ok == intLen > 0 \/ (leadingDot /\ fracLead > 0)
      fracStart == IF intLen > 0 THEN afterInt + 2 ELSE signLen + 2
      fracLen == IF intLen > 0 THEN fracAfterInt ELSE fracLead
      mantEnd == IF intLen > 0
                 THEN afterInt + (IF dotted THEN 1 + fracAfterInt ELSE 0)
                 ELSE signLen + 1 + fracLead
      hasE == At(s, mantEnd + 1) \in {"e", "E"}
      expSignLen == IF At(s, mantEnd + 2) \in {"+", "-"} THEN 1 ELSE 0
      expLen == IF hasE THEN DigitRun(s, mantEnd + 2 + expSignLen) ELSE 0
      expEnd == IF expLen > 0 THEN mantEnd + 1 + expSignLen + expLen ELSE mantEnd
      xLen == IF relative /\ At(s, expEnd + 1) = "x" THEN 1 ELSE 0
  IN IF ~ok THEN [len |-> 0, numLen |-> 0, value |-> Num(0)]
     ELSE
       LET intDigits == SubSeq(s, signLen + 1, signLen + intLen)
           fracDigits == SubSeq(s, fracStart, fracStart + fracLen - 1)
           mant == DigitsValue(intDigits \o fracDigits)
           expDigits == SubSeq(s, mantEnd + 2 + expSignLen, expEnd)
           expo == IF expLen > 0
                   THEN (IF At(s, mantEnd + 2) = "-" THEN -1 ELSE 1) * DigitsValue(expDigits)
                   ELSE 0
           sign == IF At(s, 1) = "-" THEN -1 ELSE 1
       IN [len |-> expEnd + xLen,
           numLen |-> expEnd,
           value |-> Normalise(sign * mant, expo - fracLen)]

\* parseFloat of a matched expression
ParseFloat(expr) == FloatMatch(expr, TRUE, FALSE).value

(***************************************************************************)
(* MTextContext values.                                                    *)
(***************************************************************************)
\* the RGB field of a context that has none (null in the source)
NullRgb == [id |-> 0, val |-> << >>]
\* parseInt of the empty string, stored in a line alignment
NaN == "NaN"

UNDERLINE == "UNDERLINE"
OVERLINE == "OVERLINE"
STRIKE_THROUGH == "STRIKE_THROUGH"

BOTTOM == "BOTTOM"
MIDDLE == "MIDDLE"
TOP == "TOP"

DEFAULT == "DEFAULT"
LEFT == "LEFT"
RIGHT == "RIGHT"
CENTER == "CENTER"
JUSTIFIED == "JUSTIFIED"
DISTRIBUTED == "DISTRIBUTED"

\* _stroke is a bit set; it is kept as the set of the strokes whose bit is set
DefaultContext ==
  [stroke |-> {},
   continueStroke |-> FALSE,
   aci |-> 7,
   rgb |-> NullRgb,
   align |-> BOTTOM,
   fontFace |-> [family |-> << >>, style |-> "Regular", weight |-> 400],
   capHeight |-> [value |-> Num(1), isRelative |-> FALSE],
   widthFactor |-> [value |-> Num(1), isRelative |-> FALSE],
   charTrackingFactor |-> [value |-> Num(1), isRelative |-> FALSE],
   oblique |-> Num(0),
   paragraph |-> [indent |-> Num(0), left |-> Num(0), right |-> Num(0),
                  align |-> DEFAULT, tab_stops |-> << >>]]

HasAnyStroke(c) == c.stroke # {}

SetStrokeState(c, stroke, state) ==
  IF state THEN [c EXCEPT !.stroke = @ \cup {stroke}]
  ELSE [c EXCEPT !.stroke = @ \ {stroke}]

Underline(c) == UNDERLINE \in c.stroke
Overline(c) == OVERLINE \in c.stroke
StrikeThrough(c) == STRIKE_THROUGH \in c.stroke

\* a mutation of SetAci: rgb is cleared before the range is looked at
SetAciClearingFirst(c, value) ==
  IF value >= 0 /\ value <= 256
  THEN [throws |-> FALSE, ctx |-> [c EXCEPT !.aci = value, !.rgb = NullRgb]]
  ELSE [throws |-> TRUE, ctx |-> [c EXCEPT !.rgb = NullRgb]]

\* the aci setter: the context after it, or the fact that it throws
SetAci(c, value) ==
  IF value >= 0 /\ value <= 256
  THEN [throws |-> FALSE, ctx |-> [c EXCEPT !.aci = value, !.rgb = NullRgb]]
  ELSE [throws |-> TRUE, ctx |-> c]

\* a mutation of SetCapHeight: the value is stored with its sign
SetCapHeightSigned(c, v) ==
  [c EXCEPT !.capHeight = [value |-> v.value, isRelative |-> v.isRelative]]

SetCapHeight(c, v) ==
  [c EXCEPT !.capHeight = [value |-> Abs(v.value), isRelative |-> v.isRelative]]

SetWidthFactor(c, v) ==
  [c EXCEPT !.widthFactor = [value |-> Abs(v.value), isRelative |-> v.isRelative]]

SetCharTrackingFactor(c, v) ==
  [c EXCEPT !.charTrackingFactor = [value |-> Abs(v.value), isRelative |-> v.isRelative]]

\* a mutation of rgb2int: the first component goes to the high byte
rgb2intHighFirst(rgb) == rgb[1] * 65536 + rgb[2] * 256 + rgb[3]

rgb2int(rgb) == rgb[3] * 65536 + rgb[2] * 256 + rgb[1]

int2rgb(value) ==
  << value % 256, (value \div 256) % 256, (value \div 65536) % 256 >>

(***************************************************************************)
(* The heap of MTextContext objects.  A reference is a position of the     *)
(* sequence h; copy() allocates the next position.  An RGB array is known  *)
(* by the object it was created for (id), since the source compares these  *)
(* arrays by reference.                                                    *)
(***************************************************************************)
\* a mutation of Copy: no new object, the same reference is handed back
CopyAliased(h, r) == [heap |-> h, ref |-> r]

Copy(h, r) == [heap |-> Append(h, h[r]), ref |-> Len(h) + 1]

(***************************************************************************)
(* getPropertyChanges: the changed fields and their new values.            *)
(***************************************************************************)
ParagraphChanges(old, new) ==
  LET names == {n \in {"indent", "align", "left", "right", "tab_stops"} : old[n] # new[n]}
  IN [n \in names |-> new[n]]

GetPropertyChanges(oldCtx, newCtx) ==
  LET para == ParagraphChanges(oldCtx.paragraph, newCtx.paragraph)
      names ==
        {n \in {"underline"} : Underline(oldCtx) # Underline(newCtx)}
        \cup {n \in {"overline"} : Overline(oldCtx) # Overline(newCtx)}
        \cup {n \in {"strikeThrough"} : StrikeThrough(oldCtx) # StrikeThrough(newCtx)}
        \cup {n \in {"aci", "rgb"} : oldCtx.aci # newCtx.aci}
        \cup {n \in {"rgb"} : oldCtx.rgb # newCtx.rgb}
        \cup {n \in {"align"} : oldCtx.align # newCtx.align}
        \cup {n \in {"fontFace"} : oldCtx.fontFace # newCtx.fontFace}
        \cup {n \in {"capHeight"} : oldCtx.capHeight # newCtx.capHeight}
        \cup {n \in {"widthFactor"} : oldCtx.widthFactor # newCtx.widthFactor}
        \cup {n \in {"charTrackingFactor"} :
                oldCtx.charTrackingFactor # newCtx.charTrackingFactor}
        \cup {n \in {"oblique"} : oldCtx.oblique # newCtx.oblique}
        \cup {n \in {"paragraph"} :
                oldCtx.paragraph # newCtx.paragraph /\ DOMAIN para # {}}
  IN [n \in names |->
        CASE n = "underline" -> Underline(newCtx)
          [] n = "overline" -> Overline(newCtx)
          [] n = "strikeThrough" -> StrikeThrough(newCtx)
          [] n = "paragraph" -> para
          [] OTHER -> newCtx[n]]

(***************************************************************************)
(* The sub-parsers of the property commands.  Each takes the context value *)
(* c of the fresh copy, the text t and the scanner index i behind the      *)
(* command letter, and gives the changed value and the index afterwards.   *)
(***************************************************************************)
ConsumeOptionalTerminator(t, i) ==
  IF Peek(t, i, 0) = ";" THEN Consume(t, i, 1) ELSE i

\* extractIntExpression: the length of the match of /^\d+/
ExtractIntExpression(t, i) == DigitRun(t, i + 1)

\* extractFloatExpression: the match of the float pattern at the index
ExtractFloatExpression(t, i, relative) == FloatMatch(TailOf(t, i), TRUE, relative)

\* extractExpression: the expression and the index afterwards
ExtractExpression(t, i, escape) ==
  LET stop == Find(t, i, ";", escape)
  IN IF stop < 0
     THEN [expr |-> TailOf(t, i), index |-> Consume(t, i, Len(TailOf(t, i)))]
     ELSE LET prevChar == Peek(t, i, stop - i - 1)
              isEscaped == prevChar = BACKSLASH
              expr == SubSeq(TailOf(t, i), 1, stop - i + (IF isEscaped THEN 1 ELSE 0))
          IN [expr |-> expr, index |-> Consume(t, i, Len(expr) + 1)]

ParseAlign(c, t, i) ==
  LET g == Get(t, i)
      \* '012'.includes(char) also holds of the empty string read at the end
      align == CASE g.char = "0" -> BOTTOM
                 [] g.char = "1" -> MIDDLE
                 [] g.char = "2" -> TOP
                 [] g.char = NUL -> NaN
                 [] OTHER -> BOTTOM
  IN [ctx |-> [c EXCEPT !.align = align],
      index |-> ConsumeOptionalTerminator(t, g.index)]

\* a mutation of ParseAciColor: the test aci < 257 is left out
ParseAciColorUnchecked(c, t, i) ==
  LET n == ExtractIntExpression(t, i)
      after == Consume(t, i, n)
      aci == DigitsValueUpTo(SubSeq(t, i + 1, i + n), 257)
  IN [ctx |-> IF n > 0 THEN [c EXCEPT !.aci = aci, !.rgb = NullRgb] ELSE c,
      index |-> ConsumeOptionalTerminator(t, after)]

ParseAciColor(c, t, i) ==
  LET n == ExtractIntExpression(t, i)
      after == Consume(t, i, n)
      \* parseInt(aciExpr); only aci < 257 is looked at, so 257 stands for more
      aci == DigitsValueUpTo(SubSeq(t, i + 1, i + n), 257)
      set == SetAci(c, aci)
  IN [ctx |-> IF n > 0 /\ aci < 257 THEN [set.ctx EXCEPT !.rgb = NullRgb] ELSE c,
      index |-> ConsumeOptionalTerminator(t, after)]

\* id names the array made here; parseInt(...) & 0xffffff keeps the low 24 bits
ParseRgbColor(c, t, i, id) ==
  LET n == ExtractIntExpression(t, i)
      after == Consume(t, i, n)
      value == DigitsValueMod(SubSeq(t, i + 1, i + n), 16777216)
      bgr == int2rgb(value)
  IN [ctx |-> IF n > 0
              THEN [c EXCEPT !.rgb = [id |-> id, val |-> << bgr[3], bgr[2], bgr[1] >>]]
              ELSE c,
      index |-> ConsumeOptionalTerminator(t, after)]

\* a mutation of FactorOf: the x behind the number is not looked at
FactorOfAbsolute(m) ==
  [value |-> m.value, isRelative |-> FALSE]

\* the FactorValue read by parseHeight, parseWidth and parseCharTracking
FactorOf(m) ==
  [value |-> m.value, isRelative |-> m.len > m.numLen]

ParseHeight(c, t, i) ==
  LET m == ExtractFloatExpression(t, i, TRUE)
  IN [ctx |-> IF m.len > 0 THEN SetCapHeight(c, FactorOf(m)) ELSE c,
      index |-> ConsumeOptionalTerminator(t, Consume(t, i, m.len))]

ParseWidth(c, t, i) ==
  LET m == ExtractFloatExpression(t, i, TRUE)
  IN [ctx |-> IF m.len > 0 THEN SetWidthFactor(c, FactorOf(m)) ELSE c,
      index |-> ConsumeOptionalTerminator(t, Consume(t, i, m.len))]

ParseCharTracking(c, t, i) ==
  LET m == ExtractFloatExpression(t, i, TRUE)
      f == FactorOf(m)
  IN [ctx |-> IF m.len > 0
              THEN SetCharTrackingFactor(c, [f EXCEPT !.value = Abs(f.value)])
              ELSE c,
      index |-> ConsumeOptionalTerminator(t, Consume(t, i, m.len))]

ParseOblique(c, t, i) ==
  LET m == ExtractFloatExpression(t, i, FALSE)
  IN [ctx |-> IF m.len > 0 THEN [c EXCEPT !.oblique = m.value] ELSE c,
      index |-> ConsumeOptionalTerminator(t, Consume(t, i, m.len))]

\* String.split("|")
RECURSIVE SplitPipe(_, _)
SplitPipe(s, cur) ==
  IF s = << >> THEN << cur >>
  ELSE IF Head(s) = "|" THEN << cur >> \o SplitPipe(Tail(s), << >>)
  ELSE SplitPipe(Tail(s), Append(cur, Head(s)))

StartsWith(s, a, b) == Len(s) >= 2 /\ s[1] = a /\ s[2] = b

\* the weight after the loop over the parts: the last b1/i1 decision of each
\* part is independent, so bold holds iff some part starts with b1
ParseFontProperties(c, t, i) ==
  LET x == ExtractExpression(t, i, FALSE)
      parts == SplitPipe(x.expr, << >>)
      rest == Tail(parts)
      bold == \E k \in 1..Len(rest) : StartsWith(rest[k], "b", "1")
      italic == \E k \in 1..Len(rest) : StartsWith(rest[k], "i", "1")
  IN [ctx |-> IF parts[1] # << >>
              THEN [c EXCEPT !.fontFace =
                      [family |-> parts[1],
                       style |-> IF italic THEN "Italic" ELSE "Regular",
                       weight |-> IF bold THEN 700 ELSE 400]]
              ELSE c,
      index |-> x.index]

(***************************************************************************)
(* parseStacking: the STACK payload read from the expression e.            *)
(***************************************************************************)
\* getNextChar of the scanner over e at index i
GetNextChar(e, i) ==
  LET p == Peek(e, i, 0)
      c0 == IF p \in ControlChars THEN " " ELSE p
      escape == c0 = BACKSLASH
      i1 == IF escape THEN Consume(e, i, 1) ELSE i
      c == IF escape THEN Peek(e, i1, 0) ELSE c0
  IN [c |-> c, escape |-> escape, index |-> Consume(e, i1, 1)]

Chr(c) == IF c = NUL THEN << >> ELSE << c >>

RECURSIVE ParseNumerator(_, _, _)
ParseNumerator(e, i, w) ==
  IF ~HasData(e, i) THEN [word |-> w, type |-> NUL, index |-> i]
  ELSE LET n == GetNextChar(e, i)
       IN IF ~n.escape /\ n.c \in {"/", "#", "^"}
          THEN [word |-> w, type |-> n.c, index |-> n.index]
          ELSE ParseNumerator(e, n.index, w \o Chr(n.c))

RECURSIVE ParseDenominator(_, _, _, _)
ParseDenominator(e, i, w, skipping) ==
  IF ~HasData(e, i) THEN w
  ELSE LET n == GetNextChar(e, i)
       IN IF skipping /\ n.c = " " THEN ParseDenominator(e, n.index, w, TRUE)
          ELSE IF ~n.escape /\ n.c = ";" THEN w
          ELSE ParseDenominator(e, n.index, w \o Chr(n.c), FALSE)

Includes2(s, a, b) == \E k \in 1..(Len(s) - 1) : s[k] = a /\ s[k + 1] = b

ParseStacking(t, i) ==
  LET x == ExtractExpression(t, i, TRUE)
      num == ParseNumerator(x.expr, 0, << >>)
      den == IF num.type # NUL
             THEN ParseDenominator(x.expr, num.index, << >>, num.type = "^")
             ELSE << >>
  IN [stack |-> IF num.word = << >> /\ Includes2(den, "I", "/")
                THEN << << " " >>, << " " >>, "/" >>
                ELSE << num.word, den, num.type >>,
      index |-> x.index]

(***************************************************************************)
(* The parser.                                                             *)
(***************************************************************************)
VARIABLES
  text,                  \* scanner.text
  index,                 \* scanner._index
  heap,                  \* the MTextContext objects allocated so far
  ctx,                   \* this.ctx, a reference into heap
  lastCtx,               \* this.lastCtx, a reference into heap
  ctxStack,              \* this.ctxStack, references into heap
  continueStroke,        \* this.continueStroke
  yieldPropertyCommands, \* this.yieldPropertyCommands
  inStackContext,        \* this.inStackContext
  word,                  \* the local word of the running nextToken()
  followupToken,         \* the local followupToken of parse()
  tokens,                \* the tokens yielded so far
  pc,                    \* where parse() stands
  para,                  \* the locals of a running parseParagraphProperties
  opened,                \* history: for each open group, where its brace
                         \* stands and the context value current at that time
  call,                  \* the last call made from outside the parser on a
                         \* function, a scanner or a context, with its result
  tabStopsOf             \* for each context a caller made, which array its
                         \* paragraph.tab_stops is; the parser writes into no
                         \* such array, and its specifications leave this empty

vars == << text, index, heap, ctx, lastCtx, ctxStack, continueStroke,
           yieldPropertyCommands, inStackContext, word, followupToken, tokens,
           pc, para, opened, call, tabStopsOf >>

NoPara ==
  [expr |-> << >>, index |-> 0, indent |-> Num(0), left |-> Num(0),
   right |-> Num(0), align |-> DEFAULT, tabStops |-> << >>, ref |-> 0]

NoChanges == << >>

\* no call from outside has been made
NoCall == [op |-> "none"]

Token(type, r) ==
  [type |-> type, ctx |-> r, word |-> << >>, stack |-> << >>,
   command |-> NUL, changes |-> NoChanges]

WordToken(w, r) == [Token("WORD", r) EXCEPT !.word = w]

StackToken(st, r) == [Token("STACK", r) EXCEPT !.stack = st]

\* a mutation of PropertiesToken: the token is given the type WORD
PropertiesTokenAsWord(cmd, ch, r) ==
  [Token("WORD", r) EXCEPT !.command = cmd, !.changes = ch]

PropertiesToken(cmd, ch, r) ==
  [Token("PROPERTIES_CHANGED", r) EXCEPT !.command = cmd, !.changes = ch]

\* all texts made of at most n of the given lexemes
RECURSIVE Texts(_, _)
Texts(lexemes, n) ==
  IF n = 0 THEN {<< >>}
  ELSE LET shorter == Texts(lexemes, n - 1)
       IN shorter \cup {x \o l : x \in shorter, l \in lexemes}

\* the state after new MTextParser(content, undefined, flag)
InitWith(contents, flags) ==
  /\ text \in contents
  /\ yieldPropertyCommands \in flags
  /\ index = 0
  /\ heap = << DefaultContext, DefaultContext >>
  /\ ctx = 1
  /\ lastCtx = 2
  /\ ctxStack = << >>
  /\ continueStroke = FALSE
  /\ inStackContext = FALSE
  /\ word = << >>
  /\ followupToken = NUL
  /\ tokens = << >>
  /\ pc = "scan"
  /\ para = NoPara
  /\ opened = << >>
  /\ call = NoCall
  /\ tabStopsOf = << >>

letter == Peek(text, index, 0)

\* a loop iteration of nextToken() is about to run
Scanning == pc = "scan" /\ HasData(text, index)

\* return [type, data] of nextToken() and the yield that follows it
Yield(tok, followup) ==
  /\ tokens' = Append(tokens, tok)
  /\ followupToken' = followup
  /\ word' = << >>
  /\ pc' = IF followup # NUL THEN "followup" ELSE "scan"

\* a mutation of FlushWord: the word is returned, but the two characters of
\* the command are consumed with it
FlushWordConsuming ==
  /\ Yield(WordToken(word, ctx), NUL)
  /\ index' = Consume(text, index, 2)
  /\ UNCHANGED << text, heap, ctx, lastCtx, ctxStack, continueStroke,
                  yieldPropertyCommands, inStackContext, para, opened,
                  call, tabStopsOf >>

\* if (word) return [wordToken, word], the scanner left where it is
FlushWord ==
  /\ Yield(WordToken(word, ctx), NUL)
  /\ index' = index
  /\ UNCHANGED << text, heap, ctx, lastCtx, ctxStack, continueStroke,
                  yieldPropertyCommands, inStackContext, para, opened,
                  call, tabStopsOf >>

\* continue, with a new value of word
Continue(w) ==
  /\ word' = w
  /\ pc' = "scan"
  /\ UNCHANGED << tokens, followupToken >>

\* the second yield of the loop of parse()
YieldFollowup ==
  /\ pc = "followup"
  /\ tokens' = Append(tokens, Token(followupToken, ctx))
  /\ followupToken' = NUL
  /\ pc' = "scan"
  /\ UNCHANGED << text, index, heap, ctx, lastCtx, ctxStack, continueStroke,
                  yieldPropertyCommands, inStackContext, word, para, opened,
                  call, tabStopsOf >>

\* the scanner is empty: the pending word is returned, or NONE ends parse()
EndOfInput ==
  /\ pc = "scan"
  /\ ~HasData(text, index)
  /\ IF word # << >>
     THEN Yield(WordToken(word, ctx), NUL)
     ELSE /\ pc' = "done"
          /\ UNCHANGED << tokens, followupToken, word >>
  /\ UNCHANGED << text, index, heap, ctx, lastCtx, ctxStack, continueStroke,
                  yieldPropertyCommands, inStackContext, para, opened,
                  call, tabStopsOf >>

\* a mutation of SpaceBranch: the space behind a word is forgotten
SpaceBranchNoFollowup(i) ==
  /\ index' = Consume(text, i, 1)
  /\ IF word # << >>
     THEN Yield(WordToken(word, ctx), NUL)
     ELSE Yield(Token("SPACE", ctx), NUL)

\* the space branch, reached with the scanner at index i
SpaceBranch(i) ==
  /\ index' = Consume(text, i, 1)
  /\ IF word # << >>
     THEN Yield(WordToken(word, ctx), "SPACE")
     ELSE Yield(Token("SPACE", ctx), NUL)

\* a character below code point 32
ControlChar ==
  /\ Scanning
  /\ letter \in ControlChars
  /\ LET i1 == Consume(text, index, 1)
     IN CASE letter = "\t" -> index' = i1 /\ Yield(Token("TABULATOR", ctx), NUL)
          [] letter = "\n" -> index' = i1 /\ Yield(Token("NEW_PARAGRAPH", ctx), NUL)
          [] OTHER -> SpaceBranch(i1)
  /\ UNCHANGED << text, heap, ctx, lastCtx, ctxStack, continueStroke,
                  yieldPropertyCommands, inStackContext, para, opened,
                  call, tabStopsOf >>

Space ==
  /\ Scanning
  /\ letter = " "
  /\ SpaceBranch(index)
  /\ UNCHANGED << text, heap, ctx, lastCtx, ctxStack, continueStroke,
                  yieldPropertyCommands, inStackContext, para, opened,
                  call, tabStopsOf >>

\* '\\{}'.includes(peek(1)): true of the three characters and of the empty
\* string that peek gives at the end of the text
IsEscape == letter = BACKSLASH /\ Peek(text, index, 1) \in {BACKSLASH, "{", "}", NUL}

\* a backslash before a backslash or a brace: the character is literal text
Escape ==
  /\ Scanning
  /\ IsEscape
  /\ LET i1 == Consume(text, index, 1)
     IN /\ index' = Consume(text, i1, 1)
        /\ Continue(word \o Chr(Peek(text, i1, 0)))
  /\ UNCHANGED << text, heap, ctx, lastCtx, ctxStack, continueStroke,
                  yieldPropertyCommands, inStackContext, para, opened,
                  call, tabStopsOf >>

\* a backslash that starts a command, and the command letter behind it
IsCommand == letter = BACKSLASH /\ ~IsEscape

cmd == Peek(text, index, 1)

\* the commands ~ P N X
SimpleTokenType(c) ==
  CASE c = "~" -> "NBSP"
    [] c = "P" -> "NEW_PARAGRAPH"
    [] c = "N" -> "NEW_COLUMN"
    [] c = "X" -> "WRAP_AT_DIMLINE"

SimpleCommand ==
  /\ Scanning
  /\ IsCommand
  /\ cmd \in {"~", "P", "N", "X"}
  /\ IF word # << >> THEN FlushWord
     ELSE /\ index' = Get(text, Consume(text, index, 1)).index
          /\ Yield(Token(SimpleTokenType(cmd), ctx), NUL)
          /\ UNCHANGED << text, heap, ctx, lastCtx, ctxStack, continueStroke,
                          yieldPropertyCommands, inStackContext, para, opened,
                          call, tabStopsOf >>

\* the command S: inStackContext is set and cleared within the call
StackCommand ==
  /\ Scanning
  /\ IsCommand
  /\ cmd = "S"
  /\ IF word # << >> THEN FlushWord
     ELSE LET r == ParseStacking(text, Get(text, Consume(text, index, 1)).index)
          IN /\ index' = r.index
             /\ Yield(StackToken(r.stack, ctx), NUL)
             /\ UNCHANGED << text, heap, ctx, lastCtx, ctxStack, continueStroke,
                             yieldPropertyCommands, inStackContext, para, opened,
                             call, tabStopsOf >>

HexDigits ==
  Digits \cup {"a", "b", "c", "d", "e", "f", "A", "B", "C", "D", "E", "F"}

\* tail.match(/^[0-9A-Fa-f]{4}/)
HexCodeAt(t, i) == \A k \in 0..3 : Peek(t, i, k) \in HexDigits

\* decodeMultiByteChar: the character the decoders of the platform give for
\* the two bytes; it is kept as a name made of the four digits
DecodeMultiByteChar(hex) == "MB+" \o hex[1] \o hex[2] \o hex[3] \o hex[4]

\* the commands m and M
\* a mutation of MultiByteCommand: the rewind goes back in front of the command
MultiByteCommandRewinding ==
  /\ Scanning
  /\ IsCommand
  /\ cmd \in {"m", "M"}
  /\ IF word # << >> THEN FlushWord
     ELSE LET i2 == Get(text, Consume(text, index, 1)).index
              i3 == Consume(text, i2, 1)
          IN /\ IF Peek(text, i2, 0) = "+" /\ HexCodeAt(text, i3)
                THEN /\ index' = Consume(text, i3, 4)
                     /\ Yield(WordToken(<< DecodeMultiByteChar(SubSeq(text, i3 + 1, i3 + 4)) >>,
                                        ctx), NUL)
                ELSE /\ index' = IF Peek(text, i2, 0) = "+" THEN Consume(text, i3, -4) ELSE i2
                     /\ Continue(word \o << BACKSLASH, "M" >>)
             /\ UNCHANGED << text, heap, ctx, lastCtx, ctxStack, continueStroke,
                             yieldPropertyCommands, inStackContext, para, opened,
                             call, tabStopsOf >>

MultiByteCommand ==
  /\ Scanning
  /\ IsCommand
  /\ cmd \in {"m", "M"}
  /\ IF word # << >> THEN FlushWord
     ELSE LET i2 == Get(text, Consume(text, index, 1)).index
              i3 == Consume(text, i2, 1)
          IN /\ IF Peek(text, i2, 0) = "+" /\ HexCodeAt(text, i3)
                THEN /\ index' = Consume(text, i3, 4)
                     /\ Yield(WordToken(<< DecodeMultiByteChar(SubSeq(text, i3 + 1, i3 + 4)) >>,
                                        ctx), NUL)
                ELSE /\ index' = IF Peek(text, i2, 0) = "+" THEN Consume(text, i3, -1) ELSE i2
                     /\ Continue(word \o << BACKSLASH, "M" >>)
             /\ UNCHANGED << text, heap, ctx, lastCtx, ctxStack, continueStroke,
                             yieldPropertyCommands, inStackContext, para, opened,
                             call, tabStopsOf >>

\* the letters parseProperties has a case for
PropertyLetters ==
  {"L", "l", "O", "o", "K", "k", "A", "C", "c", "H", "W", "Q", "T", "p", "f", "F"}

\* the switch of parseProperties on a letter other than p: the value of
\* newCtx and the scanner index after the sub-parser
SwitchProperties(c, letterOfCmd, t, i, id) ==
  CASE letterOfCmd = "L" -> [ctx |-> SetStrokeState(c, UNDERLINE, TRUE), index |-> i]
    [] letterOfCmd = "l" -> [ctx |-> SetStrokeState(c, UNDERLINE, FALSE), index |-> i]
    [] letterOfCmd = "O" -> [ctx |-> SetStrokeState(c, OVERLINE, TRUE), index |-> i]
    [] letterOfCmd = "o" -> [ctx |-> SetStrokeState(c, OVERLINE, FALSE), index |-> i]
    [] letterOfCmd = "K" -> [ctx |-> SetStrokeState(c, STRIKE_THROUGH, TRUE), index |-> i]
    [] letterOfCmd = "k" -> [ctx |-> SetStrokeState(c, STRIKE_THROUGH, FALSE), index |-> i]
    [] letterOfCmd = "A" -> ParseAlign(c, t, i)
    [] letterOfCmd = "C" -> ParseAciColor(c, t, i)
    [] letterOfCmd = "c" -> ParseRgbColor(c, t, i, id)
    [] letterOfCmd = "H" -> ParseHeight(c, t, i)
    [] letterOfCmd = "W" -> ParseWidth(c, t, i)
    [] letterOfCmd = "Q" -> ParseOblique(c, t, i)
    [] letterOfCmd = "T" -> ParseCharTracking(c, t, i)
    [] letterOfCmd \in {"f", "F"} -> ParseFontProperties(c, t, i)

\* a mutation of FinishProperties: continueStroke of the new context keeps
\* the value copied from the old one
FinishPropertiesStale(h, ref, val, letterOfCmd) ==
  LET newVal == val
      h1 == [h EXCEPT ![ref] = newVal]
      changes == GetPropertyChanges(h1[lastCtx], newVal)
      c1 == Copy(h1, ref)
      c2 == Copy(c1.heap, ref)
  IN /\ continueStroke' = HasAnyStroke(val)
     /\ ctx' = ref
     /\ IF yieldPropertyCommands /\ DOMAIN changes # {}
        THEN /\ heap' = c2.heap
             /\ lastCtx' = c2.ref
             /\ Yield(PropertiesToken(letterOfCmd, changes, ref), NUL)
        ELSE /\ heap' = h1
             /\ lastCtx' = lastCtx
             /\ Continue(word)

\* The end of parseProperties and what nextToken() does with its result:
\* newCtx (the object ref of the heap h, with the value val) becomes this.ctx;
\* with yieldPropertyCommands and a change, lastCtx is copied (in
\* parseProperties and again in nextToken) and the token is returned,
\* otherwise the loop continues.  The writes of this.continueStroke in the
\* stroke cases are overwritten by the one made here.
FinishProperties(h, ref, val, letterOfCmd) ==
  LET newVal == [val EXCEPT !.continueStroke = HasAnyStroke(val)]
      h1 == [h EXCEPT ![ref] = newVal]
      changes == GetPropertyChanges(h1[lastCtx], newVal)
      c1 == Copy(h1, ref)
      c2 == Copy(c1.heap, ref)
  IN /\ continueStroke' = HasAnyStroke(val)
     /\ ctx' = ref
     /\ IF yieldPropertyCommands /\ DOMAIN changes # {}
        THEN /\ heap' = c2.heap
             /\ lastCtx' = c2.ref
             /\ Yield(PropertiesToken(letterOfCmd, changes, ref), NUL)
        ELSE /\ heap' = h1
             /\ lastCtx' = lastCtx
             /\ Continue(word)

\* a mutation of PropertyCommand: the command is applied although a word is
\* pending
PropertyCommandNoFlush ==
  /\ Scanning
  /\ IsCommand
  /\ cmd \in PropertyLetters \ {"p"}
  /\ LET i2 == Get(text, Consume(text, index, 1)).index
         new == Copy(heap, ctx)
         r == SwitchProperties(new.heap[new.ref], cmd, text, i2, new.ref)
     IN /\ index' = r.index
        /\ FinishProperties(new.heap, new.ref, r.ctx, cmd)
        /\ UNCHANGED << text, ctxStack, yieldPropertyCommands, inStackContext,
                        para, opened, call, tabStopsOf >>

\* a property command other than p
PropertyCommand ==
  /\ Scanning
  /\ IsCommand
  /\ cmd \in PropertyLetters \ {"p"}
  /\ IF word # << >> THEN FlushWord
     ELSE LET i2 == Get(text, Consume(text, index, 1)).index
              new == Copy(heap, ctx)
              r == SwitchProperties(new.heap[new.ref], cmd, text, i2, new.ref)
          IN /\ index' = r.index
             /\ FinishProperties(new.heap, new.ref, r.ctx, cmd)
             /\ UNCHANGED << text, ctxStack, yieldPropertyCommands, inStackContext,
                             para, opened,
                             call, tabStopsOf >>

\* String.slice(a, b) of s, for 0 <= a
Slice(s, a, b) == SubSeq(s, a + 1, Min(b, Len(s)))

\* a letter parseProperties throws on: the catch block appends
\* this.scanner.tail.slice(cmdStartIndex, this.scanner.currentIndex)
UnknownCommand ==
  /\ Scanning
  /\ IsCommand
  /\ cmd \notin PropertyLetters \cup {"~", "P", "N", "X", "S", "m", "M"}
  /\ IF word # << >> THEN FlushWord
     ELSE LET cmdStartIndex == index
              i2 == Get(text, Consume(text, index, 1)).index
              new == Copy(heap, ctx)
              commandText == Slice(TailOf(text, i2), cmdStartIndex, i2)
          IN /\ index' = i2
             /\ heap' = new.heap
             /\ Continue(word \o commandText)
             /\ UNCHANGED << text, ctx, lastCtx, ctxStack, continueStroke,
                             yieldPropertyCommands, inStackContext, para, opened,
                             call, tabStopsOf >>

\* SPECIAL_CHAR_ENCODING[code.toLowerCase()]
SpecialChar(code) ==
  CASE code \in {"c", "C"} -> << DIAMETER >>
    [] code \in {"d", "D"} -> << DEGREE >>
    [] code \in {"p", "P"} -> << PLUSMINUS >>
    [] OTHER -> << >>

IsSpecial == letter = "%" /\ Peek(text, index, 1) = "%"

\* a mutation of Special: only the lower-case codes are looked up
SpecialLowerOnly ==
  /\ Scanning
  /\ IsSpecial
  /\ index' = Consume(text, index, 3)
  /\ Continue(word \o (IF Peek(text, index, 2) \in {"c", "d", "p"}
                        THEN SpecialChar(Peek(text, index, 2)) ELSE << >>))
  /\ UNCHANGED << text, heap, ctx, lastCtx, ctxStack, continueStroke,
                  yieldPropertyCommands, inStackContext, para, opened,
                  call, tabStopsOf >>

\* %% and a third character
Special ==
  /\ Scanning
  /\ IsSpecial
  /\ index' = Consume(text, index, 3)
  /\ Continue(word \o SpecialChar(Peek(text, index, 2)))
  /\ UNCHANGED << text, heap, ctx, lastCtx, ctxStack, continueStroke,
                  yieldPropertyCommands, inStackContext, para, opened,
                  call, tabStopsOf >>

\* a mutation of PushCtx: a group inside a group is not pushed
PushCtxOnce(stack, r) == IF stack = << >> THEN << r >> ELSE stack

\* pushCtx
PushCtx(stack, r) == Append(stack, r)

\* a mutation of PopCtx: the stack is popped, this.ctx keeps its value
PopCtxKeep(stack, r) ==
  IF Len(stack) > 0 THEN [stack |-> SubSeq(stack, 1, Len(stack) - 1), ctx |-> r]
  ELSE [stack |-> stack, ctx |-> r]

\* popCtx: the stack and this.ctx afterwards
PopCtx(stack, r) ==
  IF Len(stack) > 0
  THEN [stack |-> SubSeq(stack, 1, Len(stack) - 1), ctx |-> stack[Len(stack)]]
  ELSE [stack |-> stack, ctx |-> r]

\* an unescaped {
BraceOpen ==
  /\ Scanning
  /\ letter = "{"
  /\ IF word # << >> THEN FlushWord
     ELSE /\ index' = Consume(text, index, 1)
          /\ ctxStack' = PushCtx(ctxStack, ctx)
          /\ opened' = Append(opened, [at |-> index, val |-> heap[ctx]])
          /\ Continue(word)
          /\ UNCHANGED << text, heap, ctx, lastCtx, continueStroke,
                          yieldPropertyCommands, inStackContext, para,
                          call, tabStopsOf >>

\* an unescaped }
BraceClose ==
  /\ Scanning
  /\ letter = "}"
  /\ IF word # << >> THEN FlushWord
     ELSE LET r == PopCtx(ctxStack, ctx)
          IN /\ index' = Consume(text, index, 1)
             /\ ctxStack' = r.stack
             /\ ctx' = r.ctx
             /\ opened' = SubSeq(opened, 1, Len(opened) - 1)
             /\ Continue(word)
             /\ UNCHANGED << text, heap, lastCtx, continueStroke,
                             yieldPropertyCommands, inStackContext, para,
                             call, tabStopsOf >>

IsCaret == ~inStackContext /\ letter = "^" /\ Peek(text, index, 1) # NUL

\* a mutation of Caret: behind the ^ of caret-space the space stays in the
\* text
CaretRescanning ==
  /\ Scanning
  /\ IsCaret
  /\ index' = Consume(text, index, IF Peek(text, index, 1) = " " THEN 1 ELSE 2)
  /\ LET nextChar == Peek(text, index, 1)
     IN CASE nextChar = " " -> Continue(word \o << "^" >>)
          [] nextChar = "I" ->
               IF word # << >> THEN Yield(WordToken(word, ctx), NUL)
               ELSE Yield(Token("TABULATOR", ctx), NUL)
          [] nextChar = "J" ->
               IF word # << >> THEN Yield(WordToken(word, ctx), NUL)
               ELSE Yield(Token("NEW_PARAGRAPH", ctx), NUL)
          [] nextChar = "M" -> Continue(word)
          [] OTHER -> Continue(word \o << BOX >>)
  /\ UNCHANGED << text, heap, ctx, lastCtx, ctxStack, continueStroke,
                  yieldPropertyCommands, inStackContext, para, opened,
                  call, tabStopsOf >>

\* a caret and the character behind it
Caret ==
  /\ Scanning
  /\ IsCaret
  /\ index' = Consume(text, index, 2)
  /\ LET nextChar == Peek(text, index, 1)
     IN CASE nextChar = " " -> Continue(word \o << "^" >>)
          [] nextChar = "I" ->
               IF word # << >> THEN Yield(WordToken(word, ctx), NUL)
               ELSE Yield(Token("TABULATOR", ctx), NUL)
          [] nextChar = "J" ->
               IF word # << >> THEN Yield(WordToken(word, ctx), NUL)
               ELSE Yield(Token("NEW_PARAGRAPH", ctx), NUL)
          [] nextChar = "M" -> Continue(word)
          [] OTHER -> Continue(word \o << BOX >>)
  /\ UNCHANGED << text, heap, ctx, lastCtx, ctxStack, continueStroke,
                  yieldPropertyCommands, inStackContext, para, opened,
                  call, tabStopsOf >>

\* any other character is appended to the word
PlainChar ==
  /\ Scanning
  /\ letter \notin ControlChars \cup {BACKSLASH, " ", "{", "}"}
  /\ ~IsSpecial
  /\ ~IsCaret
  /\ index' = Consume(text, index, 1)
  /\ Continue(word \o << letter >>)
  /\ UNCHANGED << text, heap, ctx, lastCtx, ctxStack, continueStroke,
                  yieldPropertyCommands, inStackContext, para, opened,
                  call, tabStopsOf >>

(***************************************************************************)
(* parseParagraphProperties, one loop iteration at a time.  para holds its *)
(* locals: the scanner over the expression (expr, index), indent, left,    *)
(* right, align, tabStops, and ref, the newCtx of parseProperties.         *)
(***************************************************************************)
RECURSIVE SkipCommas(_, _)
SkipCommas(e, i) == IF Peek(e, i, 0) = "," THEN SkipCommas(e, Consume(e, i, 1)) ELSE i

\* parseFloatValue: the value returned and the index of the scanner after it
ParseFloatValue(e, i) ==
  LET m == FloatMatch(TailOf(e, i), FALSE, FALSE)
  IN IF m.len > 0
     THEN [value |-> m.value, index |-> SkipCommas(e, Consume(e, i, m.len))]
     ELSE [value |-> Num(0), index |-> i]

\* CHAR_TO_ALIGN[adjustment] || MTextParagraphAlignment.DEFAULT
CharToAlign(c) ==
  CASE c = "l" -> LEFT
    [] c = "r" -> RIGHT
    [] c = "c" -> CENTER
    [] c = "j" -> JUSTIFIED
    [] c = "d" -> DISTRIBUTED
    [] OTHER -> DEFAULT

\* the command p: the copy is made, the expression is extracted and the
\* locals are set up
ParagraphCommand ==
  /\ Scanning
  /\ IsCommand
  /\ cmd = "p"
  /\ IF word # << >> THEN FlushWord
     ELSE LET i2 == Get(text, Consume(text, index, 1)).index
              new == Copy(heap, ctx)
              x == ExtractExpression(text, i2, FALSE)
              c == new.heap[new.ref]
          IN /\ index' = x.index
             /\ heap' = new.heap
             /\ para' = [expr |-> x.expr, index |-> 0,
                         indent |-> c.paragraph.indent, left |-> c.paragraph.left,
                         right |-> c.paragraph.right, align |-> c.paragraph.align,
                         tabStops |-> << >>, ref |-> new.ref]
             /\ pc' = "para"
             /\ UNCHANGED << text, ctx, lastCtx, ctxStack, continueStroke,
                             yieldPropertyCommands, inStackContext, word,
                             followupToken, tokens, opened,
                             call, tabStopsOf >>

\* one iteration of the loop over the arguments
ParagraphStep ==
  /\ pc = "para"
  /\ HasData(para.expr, para.index)
  /\ LET g == Get(para.expr, para.index)
         f == ParseFloatValue(para.expr, g.index)
         adjustment == Get(para.expr, g.index)
     IN CASE g.char = "i" ->
               para' = [para EXCEPT !.indent = f.value, !.index = f.index] /\ pc' = pc
          [] g.char = "l" ->
               para' = [para EXCEPT !.left = f.value, !.index = f.index] /\ pc' = pc
          [] g.char = "r" ->
               para' = [para EXCEPT !.right = f.value, !.index = f.index] /\ pc' = pc
          [] g.char = "q" ->
               /\ para' = [para EXCEPT !.align = CharToAlign(adjustment.char),
                                       !.index = SkipCommas(para.expr, adjustment.index)]
               /\ pc' = pc
          [] g.char = "t" ->
               para' = [para EXCEPT !.tabStops = << >>, !.index = g.index] /\ pc' = "tabs"
          [] OTHER ->
               para' = [para EXCEPT !.index = g.index] /\ pc' = pc
  /\ UNCHANGED << text, index, heap, ctx, lastCtx, ctxStack, continueStroke,
                  yieldPropertyCommands, inStackContext, word, followupToken,
                  tokens, opened,
                  call, tabStopsOf >>

\* The effect of one iteration of the loop over the tab stops on the scanner
\* and the list.  parseFloatValue gives 0, never NaN, when no number stands
\* at the scanner, so a stop is pushed in every iteration.
TabStopIteration(p) ==
  LET type == Peek(p.expr, p.index, 0)
      tagged == type \in {"r", "c"}
      f == ParseFloatValue(p.expr, IF tagged THEN Consume(p.expr, p.index, 1) ELSE p.index)
  IN [p EXCEPT !.index = f.index,
               !.tabStops = Append(@, [kind |-> IF tagged THEN type ELSE NUL,
                                       value |-> f.value])]

\* one iteration of the loop over the tab stops
TabStopStep ==
  /\ pc = "tabs"
  /\ HasData(para.expr, para.index)
  /\ Len(para.tabStops) < MaxTabStops
  /\ para' = TabStopIteration(para)
  /\ UNCHANGED << text, index, heap, ctx, lastCtx, ctxStack, continueStroke,
                  yieldPropertyCommands, inStackContext, word, followupToken,
                  tokens, pc, opened,
                  call, tabStopsOf >>

\* both loops are left: ctx.paragraph is assigned and parseProperties ends
ParagraphEnd ==
  /\ pc \in {"para", "tabs"}
  /\ ~HasData(para.expr, para.index)
  /\ LET val == [heap[para.ref] EXCEPT !.paragraph =
                   [indent |-> para.indent, left |-> para.left, right |-> para.right,
                    align |-> para.align, tab_stops |-> para.tabStops]]
     IN FinishProperties(heap, para.ref, val, "p")
  /\ para' = NoPara
  /\ UNCHANGED << text, index, ctxStack, yieldPropertyCommands, inStackContext, opened,
                  call, tabStopsOf >>

(***************************************************************************)
(* Specifications.                                                         *)
(***************************************************************************)
\* every step parse() can take
NextAll ==
  \/ ControlChar
  \/ Space
  \/ Escape
  \/ SimpleCommand
  \/ StackCommand
  \/ MultiByteCommand
  \/ PropertyCommand
  \/ UnknownCommand
  \/ ParagraphCommand
  \/ ParagraphStep
  \/ TabStopStep
  \/ ParagraphEnd
  \/ Special
  \/ BraceOpen
  \/ BraceClose
  \/ Caret
  \/ PlainChar
  \/ EndOfInput
  \/ YieldFollowup


\* Spec: texts of plain characters, spaces, tabs, carets and the commands
\* without arguments
Lexemes ==
  { << "a" >>, << " " >>, << "\t" >>, << BACKSLASH >>, << "~" >>, << "P" >>,
    << "N" >>, << "X" >>, << "S" >>, << "^" >>, << "I" >> }

Init == InitWith(Texts(Lexemes, MaxUnits), {FALSE, TRUE})

Next ==
  \/ ControlChar
  \/ Space
  \/ Escape
  \/ SimpleCommand
  \/ StackCommand
  \/ UnknownCommand
  \/ Caret
  \/ PlainChar
  \/ EndOfInput
  \/ YieldFollowup

Spec == Init /\ [][Next]_vars


(***************************************************************************)
(* Claims checked under Spec.                                              *)
(***************************************************************************)
LastToken(ts) == ts[Len(ts)]

\* the step yields exactly one token, tok
YieldsOnly(tok) == tokens' = Append(tokens, tok) /\ followupToken' = NUL

\* C2: when a literal tab or newline is read while the word buffer is not
\* empty, the pending word is the next token yielded, as a WORD, and the
\* TABULATOR or NEW_PARAGRAPH token of the character follows it; the word is
\* never discarded.
C2_WordBeforeControlToken ==
  [][(Scanning /\ letter \in {"\t", "\n"} /\ word # << >>)
       => /\ Len(tokens') = Len(tokens) + 1
          /\ LastToken(tokens') = WordToken(word, ctx)
          /\ \/ followupToken' = (IF letter = "\t" THEN "TABULATOR" ELSE "NEW_PARAGRAPH")
             \/ index' = index]_vars

\* C3: outside the stacking sub-grammar a caret pair ^I or ^J behind a
\* pending word first flushes the word as a WORD token and then still gives
\* its own TABULATOR or NEW_PARAGRAPH token: the pair is never consumed
\* without its token.
C3_CaretPairKeepsItsToken ==
  [][(Scanning /\ IsCaret /\ cmd \in {"I", "J"} /\ word # << >>)
       => /\ Len(tokens') = Len(tokens) + 1
          /\ LastToken(tokens') = WordToken(word, ctx)
          /\ \/ followupToken' = (IF cmd = "I" THEN "TABULATOR" ELSE "NEW_PARAGRAPH")
             \/ index' = index]_vars

MarkerLetters == {"~", "P", "N", "X", "S"}

MarkerTokenType(c) == IF c = "S" THEN "STACK" ELSE SimpleTokenType(c)

AtMarker == Scanning /\ IsCommand /\ cmd \in MarkerLetters

\* C4: a marker \~ \P \N \X or \S behind a pending word flushes the word as
\* a WORD token first, with no character consumed, so that the marker is
\* read again with an empty word; read with an empty word it yields exactly
\* one token, of the kind of the marker, consumes the backslash and the
\* letter (and, for S, the expression) and leaves the context alone.
C4_MarkerAfterWord ==
  [][AtMarker
       => IF word # << >>
          THEN /\ YieldsOnly(WordToken(word, ctx))
               /\ index' = index /\ word' = << >> /\ pc' = "scan"
               /\ ctx' = ctx /\ heap' = heap
          ELSE /\ Len(tokens') = Len(tokens) + 1
               /\ followupToken' = NUL
               /\ LastToken(tokens').type = MarkerTokenType(cmd)
               /\ LastToken(tokens').ctx = ctx
               /\ IF cmd = "S" THEN index' >= index + 2 ELSE index' = index + 2
               /\ word' = << >> /\ pc' = "scan"
               /\ ctx' = ctx /\ heap' = heap]_vars

\* C4, witness: a word and a marker token behind it have been yielded
C4_Witness ==
  /\ Len(tokens) >= 2
  /\ tokens[1].type = "WORD"
  /\ tokens[2].type \in {"NBSP", "NEW_PARAGRAPH", "NEW_COLUMN", "WRAP_AT_DIMLINE", "STACK"}
  /\ text[Len(tokens[1].word) + 1] = BACKSLASH

\* C5: a backslash before a character that is no command never aborts the
\* parse: the context stays, exactly the backslash and that character are
\* appended to the word, and scanning goes on behind them.
C5_UnknownCommandIsLiteral ==
  [][(Scanning /\ IsCommand /\ word = << >> /\ cmd # NUL
        /\ cmd \notin PropertyLetters \cup MarkerLetters \cup {"m", "M"})
       => /\ word' = << BACKSLASH, cmd >>
          /\ index' = index + 2
          /\ pc' = "scan"
          /\ ctx' = ctx /\ heap'[ctx'] = heap[ctx]
          /\ tokens' = tokens]_vars

\* the characters that start something other than plain text
MarkerChars == ControlChars \cup {BACKSLASH, "{", "}", "^", "%"}

NoMarkers(t) == \A k \in 1..Len(t) : t[k] \notin MarkerChars

\* the split of a text at its spaces: each space is << "SPACE", << >> >>, each
\* maximal run of other characters is << "WORD", run >>
RECURSIVE NaiveSplit(_, _)
NaiveSplit(t, run) ==
  IF t = << >> THEN (IF run = << >> THEN << >> ELSE << << "WORD", run >> >>)
  ELSE IF Head(t) = " "
       THEN (IF run = << >> THEN << >> ELSE << << "WORD", run >> >>)
            \o << << "SPACE", << >> >> >> \o NaiveSplit(Tail(t), << >>)
       ELSE NaiveSplit(Tail(t), Append(run, Head(t)))

TypesAndWords(ts) == [k \in 1..Len(ts) |-> << ts[k].type, ts[k].word >>]

\* C9: for a text without command markers the tokens are the WORD and SPACE
\* tokens of the split of the text at its spaces, in order, each with the
\* initial context.
C9_PlainTextIsNaiveSplit ==
  (pc = "done" /\ NoMarkers(text))
    => /\ TypesAndWords(tokens) = NaiveSplit(text, << >>)
       /\ \A k \in 1..Len(tokens) : tokens[k].ctx = 1 /\ heap[1] = DefaultContext

\* C9, witness: a text of two words around a space has been parsed
C9_Witness ==
  /\ pc = "done"
  /\ NoMarkers(text)
  /\ Len(tokens) = 3
  /\ Len(tokens[1].word) = 2
  /\ tokens[2].type = "SPACE"
  /\ tokens[3].type = "WORD"


(***************************************************************************)
(* Brace groups and property commands: the specification of the claims     *)
(* about the group stack and the contexts of the tokens.                   *)
(***************************************************************************)
GroupLexemes ==
  { << "a" >>, << "{" >>, << "}" >>, << BACKSLASH, "{" >>, << BACKSLASH, "L" >>,
    << BACKSLASH, "C", "1" >> }

GroupInit == InitWith(Texts(GroupLexemes, MaxGroupUnits), {FALSE, TRUE})

GroupNext ==
  \/ BraceOpen
  \/ BraceClose
  \/ Escape
  \/ PropertyCommand
  \/ PlainChar
  \/ EndOfInput

GroupSpec == GroupInit /\ [][GroupNext]_vars

\* the positions of the unescaped { still open in front of position k of t,
\* innermost last; a backslash takes the character behind it with it
RECURSIVE OpenBraces(_, _, _, _)
OpenBraces(t, from, k, acc) ==
  IF from >= k THEN acc
  ELSE IF t[from + 1] = BACKSLASH THEN OpenBraces(t, from + 2, k, acc)
  ELSE IF t[from + 1] = "{" THEN OpenBraces(t, from + 1, k, Append(acc, from))
  ELSE IF t[from + 1] = "}" /\ acc # << >>
       THEN OpenBraces(t, from + 1, k, SubSeq(acc, 1, Len(acc) - 1))
  ELSE OpenBraces(t, from + 1, k, acc)

\* the tokens yielded by the step
NewTokens == SubSeq(tokens', Len(tokens) + 1, Len(tokens'))

\* C7: brace groups restore the context: the step that reads an unescaped }
\* with a matching { makes current a context equal field by field to the
\* one that was current when the matching { was read, whatever commands
\* were read inside the group, and every token is yielded with the context
\* current after its step.
C7_GroupRestoresContext ==
  [][/\ (Scanning /\ letter = "}" /\ word = << >> /\ ctxStack # << >>)
          => LET open == OpenBraces(text, 0, index, << >>)
             IN /\ open # << >>
                /\ opened[Len(opened)].at = open[Len(open)]
                /\ heap'[ctx'] = opened[Len(opened)].val
                /\ Len(ctxStack') = Len(open) - 1
     /\ \A k \in 1..Len(NewTokens) : heap'[NewTokens[k].ctx] = heap'[ctx']]_vars

\* C7, witness: a word inside a group that changed the context, and a token
\* behind the group with the context that was current in front of it
C7_Witness ==
  /\ pc = "done"
  /\ Len(tokens) >= 2
  /\ ctxStack = << >>
  /\ \E k \in 1..(Len(tokens) - 1) :
       /\ tokens[k].type = "WORD"
       /\ heap[tokens[k].ctx] # DefaultContext
       /\ heap[tokens[Len(tokens)].ctx] = DefaultContext
  /\ \E k \in 1..Len(text) : text[k] = "}" /\ OpenBraces(text, 0, k - 1, << >>) # << >>

\* the contexts that a token or the group stack refers to
Attached ==
  {tokens[k].ctx : k \in 1..Len(tokens)} \cup {ctxStack[k] : k \in 1..Len(ctxStack)}

\* C8: no context is changed after it was attached to a yielded token or
\* pushed on the group stack: a step leaves the fields of every such context
\* as they are, and a property command makes current a context that was not
\* attached before.
C8_AttachedContextsAreFrozen ==
  [][/\ \A r \in Attached : r \in DOMAIN heap' /\ heap'[r] = heap[r]
     /\ (Scanning /\ IsCommand /\ cmd \in PropertyLetters /\ word = << >>)
          => ctx' \notin Attached \cup {ctx}]_vars

\* C8, witness: a token was yielded, and a later property command made the
\* current context differ from the context of that token
C8_Witness ==
  /\ tokens # << >>
  /\ tokens[1].type = "WORD"
  /\ tokens[1].ctx # ctx
  /\ heap[tokens[1].ctx] # heap[ctx]
  /\ heap[tokens[1].ctx] = DefaultContext
  /\ ctxStack # << >>


(***************************************************************************)
(* Property commands and their arguments, character by character: the      *)
(* specification of the claims about malformed commands.                   *)
(***************************************************************************)
PropLexemes ==
  { << BACKSLASH >>, << "A" >>, << "C" >>, << "c" >>, << "p" >>, << "t" >>,
    << "X" >>, << "+" >>, << "1" >>, << ";" >> }

PropInit == InitWith(Texts(PropLexemes, MaxPropUnits), {FALSE, TRUE})

PropNext ==
  \/ Escape
  \/ SimpleCommand
  \/ PropertyCommand
  \/ UnknownCommand
  \/ ParagraphCommand
  \/ ParagraphStep
  \/ TabStopStep
  \/ ParagraphEnd
  \/ PlainChar
  \/ EndOfInput

PropSpec == PropInit /\ [][PropNext]_vars

InParagraph == pc \in {"para", "tabs"}

\* what is left to do: the characters not yet scanned, those of the argument
\* list of a paragraph command, the pending word and the pending second yield
Rank ==
  3 * (Len(text) - index)
    + 2 * (IF InParagraph THEN Len(para.expr) - para.index ELSE 0)
    + (IF InParagraph THEN 1 ELSE 0)
    + (IF word # << >> THEN 1 ELSE 0)
    + (IF pc = "followup" THEN 1 ELSE 0)
    + (IF pc # "done" THEN 1 ELSE 0)

\* C1: parse() terminates on every finite input, with either value of
\* yieldPropertyCommands and on malformed paragraph commands too: every step
\* of the parser, each iteration of the loops over the arguments and the tab
\* stops of \p included, lessens what is left to do, which is finite.
C1_EveryStepMakesProgress == [][Rank' < Rank /\ Rank' >= 0]_vars

\* C6: \C or \c before a sign is abandoned: no field of the context changes,
\* no token is yielded, and the backslash and the letter become the text of
\* the word, the scanner left in front of the sign.
C6_SignedColorIsLiteral ==
  [][(Scanning /\ IsCommand /\ cmd \in {"C", "c"} /\ word = << >>
        /\ Peek(text, index, 2) \in {"+", "-"})
       => /\ heap'[ctx'] = heap[ctx]
          /\ tokens' = tokens
          /\ word' = << BACKSLASH, cmd >>
          /\ index' = index + 2]_vars

\* C10: behind \A a character 0, 1 or 2 is consumed and sets the alignment
\* to bottom, middle or top; another character sets the alignment to bottom
\* and is left to be read as text.
C10_AlignLeavesOtherCharacters ==
  [][(Scanning /\ IsCommand /\ cmd = "A" /\ word = << >>)
       => LET ch == Peek(text, index, 2)
          IN CASE ch = "0" -> heap'[ctx'].align = BOTTOM /\ index' >= index + 3
               [] ch = "1" -> heap'[ctx'].align = MIDDLE /\ index' >= index + 3
               [] ch = "2" -> heap'[ctx'].align = TOP /\ index' >= index + 3
               [] ch \in {NUL, ";"} -> TRUE
               [] OTHER -> heap'[ctx'].align = BOTTOM /\ index' = index + 2]_vars

(***************************************************************************)
(* The indexed colour command \C with its digits, inside and outside of    *)
(* groups.                                                                 *)
(***************************************************************************)
AciLexemes ==
  { << BACKSLASH, "C", "1" >>, << BACKSLASH, "C", "2", "5" >>, << "6" >>, << "7" >>,
    << ";" >>, << "{" >>, << "}" >> }

AciInit == InitWith(Texts(AciLexemes, MaxAciUnits), {FALSE, TRUE})

AciNext ==
  \/ PropertyCommand
  \/ BraceOpen
  \/ BraceClose
  \/ PlainChar
  \/ EndOfInput

AciSpec == AciInit /\ [][AciNext]_vars

\* the parser reads a command \C that has digits behind it, with no word
\* pending
AtAciDigits ==
  /\ Scanning /\ IsCommand /\ cmd = "C" /\ word = << >>
  /\ DigitRun(text, index + 3) > 0

\* the digits behind the \C at the scanner, their value, and the index
\* behind them and the ; that may follow
AciDigits == SubSeq(text, index + 3, index + 2 + DigitRun(text, index + 3))

AciValue == DigitsValue(AciDigits)

AciEnd ==
  LET e == index + 2 + Len(AciDigits)
  IN IF e < Len(text) /\ text[e + 1] = ";" THEN e + 1 ELSE e

\* what \C with digits does to the context and the scanner: at most 256 is
\* stored, 257 or more is read and dropped; no digit becomes text
AciEffect ==
  /\ index' = AciEnd
  /\ word' = << >>
  /\ IF AciValue <= 256
     THEN heap'[ctx'] = [heap[ctx] EXCEPT !.aci = AciValue, !.rgb = NullRgb,
                                          !.continueStroke = HasAnyStroke(heap[ctx])]
     ELSE heap'[ctx'] = [heap[ctx] EXCEPT !.continueStroke = HasAnyStroke(heap[ctx])]

RgbLexemes ==
  { << BACKSLASH, "C", "1" >>, << BACKSLASH, "c", "1" >>, << BACKSLASH, "c", "2", "5" >>,
    << BACKSLASH, "c", "1", "6", "7", "7", "7", "2", "1" >>,
    << BACKSLASH, "c", "9", "9", "9", "9", "9", "9", "9", "9", "9", "9", ";" >>,
    << "6" >>, << "7" >>, << ";" >> }

RgbInit == InitWith(Texts(RgbLexemes, MaxRgbUnits), {FALSE, TRUE})

RgbNext ==
  \/ PropertyCommand
  \/ PlainChar
  \/ EndOfInput

RgbSpec == RgbInit /\ [][RgbNext]_vars

\* the parser reads a command \c that has digits behind it, with no word
\* pending
AtRgbDigits ==
  /\ Scanning /\ IsCommand /\ cmd = "c" /\ word = << >>
  /\ DigitRun(text, index + 3) > 0

\* n & 0xFFFFFF for the digits behind the \c at the scanner
RgbMasked ==
  DigitsValueMod(SubSeq(text, index + 3, index + 2 + DigitRun(text, index + 3)), 16777216)

\* C12: \c with digits of value n stores the split of n & 0xFFFFFF with
\* component 0 in the low byte: the triple is int2rgb(n & 0xFFFFFF), and
\* rgb2int of it is n & 0xFFFFFF.
C12_RgbIsLowByteFirst ==
  [][AtRgbDigits
       => /\ heap'[ctx'].rgb.val = int2rgb(RgbMasked)
          /\ rgb2int(heap'[ctx'].rgb.val) = RgbMasked]_vars

\* C13: indexed colour and RGB colour exclude each other: \C with a value
\* of at most 256 sets rgb to null, and \c with digits sets an RGB colour
\* and clears an indexed colour set before, so that the context does not
\* report that index any more.
C13_ColoursExcludeEachOther ==
  [][/\ (AtAciDigits /\ AciValue <= 256) => heap'[ctx'].rgb = NullRgb
     /\ AtRgbDigits
          => /\ heap'[ctx'].rgb # NullRgb
             /\ heap[ctx].aci # DefaultContext.aci
                  => heap'[ctx'].aci # heap[ctx].aci]_vars

(***************************************************************************)
(* The commands \H, \W and \T with their numbers.                          *)
(***************************************************************************)
FactorLexemes ==
  { << BACKSLASH, "H" >>, << BACKSLASH, "W" >>, << BACKSLASH, "T" >>,
    << BACKSLASH, "H", "2", ".", "5", ";" >>, << BACKSLASH, "H", ".", "5", "x", ";" >>,
    << "-" >>, << "2" >>, << ".", "5" >>, << "e" >>, << "x" >> }

FactorInit == InitWith(Texts(FactorLexemes, MaxFactorUnits), {FALSE, TRUE})

FactorNext ==
  \/ PropertyCommand
  \/ PlainChar
  \/ EndOfInput

FactorSpec == FactorInit /\ [][FactorNext]_vars

FactorField(c) ==
  CASE c = "H" -> "capHeight" [] c = "W" -> "widthFactor" [] c = "T" -> "charTrackingFactor"

\* the parser reads \H, \W or \T with no word pending
AtFactor == Scanning /\ IsCommand /\ cmd \in {"H", "W", "T"} /\ word = << >>

\* the literal of the floating grammar, with its x, behind the command
FactorLiteral == FloatMatch(TailOf(text, index + 2), TRUE, TRUE)

NonNegative(c) ==
  /\ c.capHeight.value.m >= 0
  /\ c.widthFactor.value.m >= 0
  /\ c.charTrackingFactor.value.m >= 0

C15_FactorReplacesAndFlags ==
  /\ [][(AtFactor /\ FactorLiteral.len > 0)
          => heap'[ctx'] =
               [heap[ctx] EXCEPT ![FactorField(cmd)] =
                                    [value |-> Abs(FactorLiteral.value),
                                     isRelative |-> text[index + 2 + FactorLiteral.len] = "x"],
                                 !.continueStroke = HasAnyStroke(heap[ctx])]]_vars
  /\ []((/\ pc = "done"
         /\ ~yieldPropertyCommands
         /\ text = << BACKSLASH, "H", "2", ".", "5", ";", "x",
                      BACKSLASH, "H", ".", "5", "x", ";", "x" >>)
          => /\ Len(tokens) = 2
             /\ tokens[1] = WordToken(<< "x" >>, tokens[1].ctx)
             /\ tokens[2] = WordToken(<< "x" >>, tokens[2].ctx)
             /\ heap[tokens[1].ctx].capHeight = [value |-> [m |-> 25, e |-> -1], isRelative |-> FALSE]
             /\ heap[tokens[2].ctx].capHeight = [value |-> [m |-> 5, e |-> -1], isRelative |-> TRUE])

\* C15, witness: the two words of \H2.5;x\H.5x;x have been yielded
C15_Witness ==
  /\ pc = "done"
  /\ text = << BACKSLASH, "H", "2", ".", "5", ";", "x", BACKSLASH, "H", ".", "5", "x", ";", "x" >>
  /\ Len(tokens) = 2
  /\ heap[tokens[2].ctx].capHeight.isRelative

\* the argument behind the command is not a literal of the grammar as a
\* whole: the literal that can be read is followed at once by a further
\* point or by an exponent without digits, as in 1..5, 1e and 1e+
InvalidAsAWhole ==
  /\ FactorLiteral.numLen > 0
  /\ At(text, index + 2 + FactorLiteral.numLen + 1) \in {".", "e", "E"}

\* C16: when the argument of \H is no valid floating literal as a whole,
\* the command ends there and the cap height keeps the value it had before
\* the command, whatever it was.
C16_InvalidHeightChangesNothing ==
  [][(AtFactor /\ cmd = "H" /\ InvalidAsAWhole)
       => heap'[ctx'].capHeight = heap[ctx].capHeight]_vars

(***************************************************************************)
(* Paragraph commands, one after the other.                                *)
(***************************************************************************)
ParaLexemes ==
  { << BACKSLASH, "p", "t", "1", ";" >>, << BACKSLASH, "p", "i", "2", ";" >>,
    << BACKSLASH, "p", "q", "c", ";" >>, << BACKSLASH, "p" >>,
    << "l" >>, << "r" >>, << "1" >>, << ";" >>, << "x" >> }

ParaInit == InitWith(Texts(ParaLexemes, MaxParaUnits), {FALSE, TRUE})

ParaNext ==
  \/ ParagraphCommand
  \/ ParagraphStep
  \/ TabStopStep
  \/ ParagraphEnd
  \/ PlainChar
  \/ EndOfInput

ParaSpec == ParaInit /\ [][ParaNext]_vars

\* the letter that names a field of the paragraph properties in \p...;
ParagraphLetter(f) ==
  CASE f = "indent" -> "i" [] f = "left" -> "l" [] f = "right" -> "r"
    [] f = "align" -> "q" [] f = "tab_stops" -> "t"

ParagraphFields == {"indent", "left", "right", "align", "tab_stops"}

\* the letter c does not occur in the argument list e at all
Unmentioned(e, c) == \A k \in 1..Len(e) : e[k] # c

\* C17: a paragraph command changes only the fields its arguments mention:
\* when the command ends, each of indent, left, right, alignment and the
\* tab-stop list whose letter does not occur in the argument list has the
\* value it had before the command.
C17_UnmentionedFieldsAreKept ==
  [][(InParagraph /\ pc' = "scan")
       => \A f \in ParagraphFields :
            Unmentioned(para.expr, ParagraphLetter(f))
              => heap'[ctx'].paragraph[f] = heap[ctx].paragraph[f]]_vars

(***************************************************************************)
(* Font commands.                                                          *)
(***************************************************************************)
FontLexemes ==
  { << BACKSLASH, "f", "A" >>, << BACKSLASH, "F" >>, << "|", "b", "1" >>,
    << "|", "i", "1" >>, << ";" >>, << BACKSLASH, ";" >>, << "A" >> }

FontInit == InitWith(Texts(FontLexemes, MaxFontUnits), {FALSE, TRUE})

FontNext ==
  \/ PropertyCommand
  \/ UnknownCommand
  \/ PlainChar
  \/ EndOfInput

FontSpec == FontInit /\ [][FontNext]_vars

\* the index (0-based) behind the first ; of t at or behind the index i, or
\* the length of t when there is none
BehindSemicolon(t, i) ==
  LET at == {k \in (i + 1)..Len(t) : t[k] = ";"}
  IN IF at = {} THEN Len(t)
     ELSE CHOOSE k \in at : \A j \in at : k <= j

\* the characters of t from the index i up to the first ; or to the end
UpToSemicolon(t, i) ==
  LET at == {k \in (i + 1)..Len(t) : t[k] = ";"}
  IN IF at = {} THEN SubSeq(t, i + 1, Len(t))
     ELSE SubSeq(t, i + 1, BehindSemicolon(t, i) - 1)

\* C18: \f or \F consumes all characters up to and with the next ; (or to
\* the end of the text) and none of them becomes text; a first field that
\* is not empty replaces the font by family = that field, bold iff a later
\* field starts with b1, italic iff a later field starts with i1; an empty
\* first field leaves the font as it is.
C18_FontCommand ==
  [][(Scanning /\ IsCommand /\ cmd \in {"f", "F"} /\ word = << >>)
       => LET fields == SplitPipe(UpToSemicolon(text, index + 2), << >>)
              later == Tail(fields)
              bold == \E k \in 1..Len(later) : StartsWith(later[k], "b", "1")
              italic == \E k \in 1..Len(later) : StartsWith(later[k], "i", "1")
          IN /\ index' = BehindSemicolon(text, index + 2)
             /\ word' = << >>
             /\ heap'[ctx'].fontFace =
                  IF fields[1] # << >>
                  THEN [family |-> fields[1],
                        style |-> IF italic THEN "Italic" ELSE "Regular",
                        weight |-> IF bold THEN 700 ELSE 400]
                  ELSE heap[ctx].fontFace]_vars

(***************************************************************************)
(* Stacking commands.                                                      *)
(***************************************************************************)
StackLexemes ==
  { << BACKSLASH, "S" >>, << "1" >>, << "/" >>, << "^" >>, << "I" >>, << " " >>,
    << ";" >>, << BACKSLASH, ";" >> }

StackInit == InitWith(Texts(StackLexemes, MaxStackUnits), {FALSE, TRUE})

StackNext ==
  \/ StackCommand
  \/ UnknownCommand
  \/ Caret
  \/ Space
  \/ YieldFollowup
  \/ PlainChar
  \/ EndOfInput

StackSpec == StackInit /\ [][StackNext]_vars

\* the parser reads \S with no word pending
AtStack == Scanning /\ IsCommand /\ cmd = "S" /\ word = << >>

\* the index (0-based) of the first ; of t at or behind the index i that no
\* backslash escapes, or the length of t when there is none; a backslash
\* and the character behind it are one unit
RECURSIVE Terminator(_, _)
Terminator(t, i) ==
  IF i >= Len(t) THEN Len(t)
  ELSE IF t[i + 1] = BACKSLASH THEN Terminator(t, i + 2)
  ELSE IF t[i + 1] = ";" THEN i
  ELSE Terminator(t, i + 1)

\* the stacking expression behind the \S at the scanner
StackExpression == SubSeq(text, index + 3, Min(Len(text), Terminator(text, index + 2)))

Dividers == {"/", "#", "^"}

RECURSIVE StripSpaces(_)
StripSpaces(s) == IF s # << >> /\ Head(s) = " " THEN StripSpaces(Tail(s)) ELSE s

\* the fraction of an expression e without backslashes: cut at the first
\* divider
Fraction(e) ==
  LET at == {k \in 1..Len(e) : e[k] \in Dividers}
  IN IF at = {} THEN << e, << >>, NUL >>
     ELSE LET k == CHOOSE k \in at : \A j \in at : k <= j
              rest == SubSeq(e, k + 1, Len(e))
          IN << SubSeq(e, 1, k - 1), IF e[k] = "^" THEN StripSpaces(rest) ELSE rest, e[k] >>

\* no backslash in e, and no ^ of e with a character other than the space
\* behind it
PlainExpression(e) ==
  \A k \in 1..Len(e) :
    /\ e[k] # BACKSLASH
    /\ e[k] = "^" => (k = Len(e) \/ e[k + 1] = " ")

\* C19: the STACK payload is the expression cut at its first unescaped
\* divider: the numerator is what stands before it, the kind is the
\* divider, the denominator is what stands behind it up to the terminator,
\* without its leading spaces only when the divider is ^; further dividers
\* are characters of the denominator; without a divider all is numerator.
\* (Stated for expressions without a backslash and without a caret-encoded
\* character, that is, with a space or nothing behind each ^.)
C19_StackIsCutAtFirstDivider ==
  [][(AtStack /\ PlainExpression(StackExpression))
       => /\ Len(tokens') = Len(tokens) + 1
          /\ LastToken(tokens').type = "STACK"
          /\ LastToken(tokens').stack = Fraction(StackExpression)]_vars

\* the number of ; in s
RECURSIVE Semicolons(_)
Semicolons(s) ==
  IF s = << >> THEN 0 ELSE (IF Head(s) = ";" THEN 1 ELSE 0) + Semicolons(Tail(s))

\* the number of pairs backslash-semicolon of e, a backslash and the
\* character behind it being one unit
RECURSIVE EscapedSemicolons(_)
EscapedSemicolons(e) ==
  IF Len(e) < 2 THEN 0
  ELSE IF Head(e) = BACKSLASH
       THEN (IF e[2] = ";" THEN 1 ELSE 0) + EscapedSemicolons(Tail(Tail(e)))
       ELSE EscapedSemicolons(Tail(e))

\* C20: inside \S a backslash-semicolon is a ; of the fraction and does not
\* end the expression: the expression reaches to the next unescaped ;,
\* which is consumed, or to the end of the text; each escaped ; is in the
\* fraction, and scanning goes on directly behind the terminator.
C20_EscapedTerminator ==
  [][AtStack
       => /\ index' = Min(Len(text), Terminator(text, index + 2) + 1)
          /\ Len(tokens') = Len(tokens) + 1
          /\ LET st == LastToken(tokens').stack
             IN Semicolons(st[1] \o st[2]) = EscapedSemicolons(StackExpression)]_vars


(***************************************************************************)
(* Caret-encoded characters inside stacking commands.                      *)
(***************************************************************************)
MaxCaretStackUnits == 5

CaretStackLexemes ==
  { << BACKSLASH, "S" >>, << "^", "I" >>, << "^", "J" >>, << "^", "!" >>,
    << "/" >>, << "1" >>, << ";" >> }

CaretStackInit == InitWith(Texts(CaretStackLexemes, MaxCaretStackUnits), {FALSE, TRUE})

CaretStackNext ==
  \/ StackCommand
  \/ Caret
  \/ PlainChar
  \/ EndOfInput

CaretStackSpec == CaretStackInit /\ [][CaretStackNext]_vars

\* what a caret pair ^c renders as inside a fraction
CaretGlyph(c) == IF c \in {"I", "J"} THEN " " ELSE BOX

\* e with each caret pair replaced by its glyph, from left to right
RECURSIVE DecodeCarets(_)
DecodeCarets(e) ==
  IF e = << >> THEN << >>
  ELSE IF Head(e) = "^" /\ Len(e) >= 2
       THEN << CaretGlyph(e[2]) >> \o DecodeCarets(Tail(Tail(e)))
       ELSE << Head(e) >> \o DecodeCarets(Tail(e))

\* e holds a caret pair
HasCaretPair(e) == \E k \in 1..(Len(e) - 1) : e[k] = "^"

\* C21: inside a stacking expression the caret pairs are decoded before the
\* fraction is split: ^I and ^J render as one space, any other pair as the
\* replacement glyph, and the payload is the fraction of the decoded
\* expression.
C21_CaretsDecodedBeforeSplit ==
  [][(AtStack /\ HasCaretPair(StackExpression))
       => /\ Len(tokens') = Len(tokens) + 1
          /\ LastToken(tokens').type = "STACK"
          /\ LastToken(tokens').stack = Fraction(DecodeCarets(StackExpression))]_vars


(***************************************************************************)
(* PROPERTIES_CHANGED tokens.                                              *)
(***************************************************************************)
MaxChangeUnits == 4

ChangeLexemes ==
  { << BACKSLASH, "L" >>, << BACKSLASH, "l" >>, << BACKSLASH, "C", "1" >>,
    << BACKSLASH, "c", "1", ";" >>, << BACKSLASH, "H", "2", ";" >>,
    << BACKSLASH, "p", "i", "2", ";" >>, << "{" >>, << "}" >>, << "x" >> }

ChangeInit == InitWith(Texts(ChangeLexemes, MaxChangeUnits), {FALSE, TRUE})

ChangeNext ==
  \/ PropertyCommand
  \/ ParagraphCommand
  \/ ParagraphStep
  \/ ParagraphEnd
  \/ BraceOpen
  \/ BraceClose
  \/ PlainChar
  \/ EndOfInput

ChangeSpec == ChangeInit /\ [][ChangeNext]_vars

\* the names a PROPERTIES_CHANGED token can carry
ChangeFields ==
  {"underline", "overline", "strikeThrough", "aci", "rgb", "align", "fontFace",
   "capHeight", "widthFactor", "charTrackingFactor", "oblique", "paragraph"}

\* the value of the field n of the context c
FieldValue(c, n) ==
  CASE n = "underline" -> Underline(c)
    [] n = "overline" -> Overline(c)
    [] n = "strikeThrough" -> StrikeThrough(c)
    [] n = "rgb" -> c.rgb.val
    [] OTHER -> c[n]

\* the fields whose value differs between the contexts old and new
Differing(old, new) == {n \in ChangeFields : FieldValue(old, n) # FieldValue(new, n)}

\* the step about to be taken ends a property command
AtPropertyEnd ==
  \/ Scanning /\ IsCommand /\ cmd \in PropertyLetters \ {"p"} /\ word = << >>
  \/ pc \in {"para", "tabs"} /\ ~HasData(para.expr, para.index)

\* the letter of that command
EndingCommand == IF pc = "scan" THEN cmd ELSE "p"

\* the value the token t carries for the field n
Carried(t, n) ==
  IF n = "rgb" THEN t.changes[n].val ELSE t.changes[n]

\* the value a token has to carry for the field n of new, seen from old
Changed(old, new, n) ==
  IF n = "paragraph"
  THEN LET names == {f \in DOMAIN new.paragraph : old.paragraph[f] # new.paragraph[f]}
       IN [f \in names |-> new.paragraph[f]]
  ELSE FieldValue(new, n)

\* C22: with yieldPropertyCommands a PROPERTIES_CHANGED token carries the
\* letter of its command and exactly the fields whose value differs from
\* the context of the PROPERTIES_CHANGED token before it (the initial
\* context for the first), with their new values; and a command after which
\* no field value differs, neither from that context nor from the current
\* one, yields no token.
C22_OnlyChangedFields ==
  [][(AtPropertyEnd /\ yieldPropertyCommands)
       => LET old == heap[lastCtx]
              new == heap'[ctx']
              d == Differing(old, new)
              emitted == Len(tokens') = Len(tokens) + 1
              tok == LastToken(tokens')
          IN /\ emitted
                  => /\ tok.type = "PROPERTIES_CHANGED"
                     /\ tok.command = EndingCommand
                     /\ DOMAIN tok.changes = d
                     /\ \A n \in d : Carried(tok, n) = Changed(old, new, n)
             /\ (d = {} /\ Differing(heap[ctx], new) = {}) => ~emitted]_vars


(***************************************************************************)
(* Special characters: %% and a code.                                      *)
(***************************************************************************)
MaxSpecialUnits == 5

SpecialLexemes ==
  { << "%", "%" >>, << "%" >>, << "c" >>, << "D" >>, << "p" >>, << "x" >>, << " " >> }

SpecialInit == InitWith(Texts(SpecialLexemes, MaxSpecialUnits), {FALSE, TRUE})

SpecialNext ==
  \/ Special
  \/ Space
  \/ YieldFollowup
  \/ PlainChar
  \/ EndOfInput

SpecialSpec == SpecialInit /\ [][SpecialNext]_vars

\* the glyph of the code c, or nothing
GlyphOf(c) ==
  IF c \in {"c", "C"} THEN << DIAMETER >>
  ELSE IF c \in {"d", "D"} THEN << DEGREE >>
  ELSE IF c \in {"p", "P"} THEN << PLUSMINUS >>
  ELSE << >>

\* C23: %% followed by c, d or p in either case appends the one glyph of
\* the code to the current word, which goes on, and the context stays;
\* %% followed by any other character appends nothing; in both cases
\* exactly the three characters are consumed and no token is produced.
C23_SpecialCharacters ==
  [][(Scanning /\ IsSpecial /\ Peek(text, index, 2) # NUL)
       => /\ index' = index + 3
          /\ word' = word \o GlyphOf(Peek(text, index, 2))
          /\ tokens' = tokens
          /\ pc' = "scan"
          /\ heap'[ctx'] = heap[ctx]]_vars

\* x%%D%%x has been read: the word is x and the degree sign, no token yet
C23_Witness ==
  /\ Len(text) >= 7
  /\ SubSeq(text, 1, 7) = << "x", "%", "%", "D", "%", "%", "x" >>
  /\ index = 7
  /\ word = << "x", DEGREE >>
  /\ tokens = << >>


(***************************************************************************)
(* Caret-encoded characters outside stacking commands.                     *)
(***************************************************************************)
MaxCaretUnits == 5

CaretLexemes ==
  { << "^" >>, << " " >>, << "M" >>, << "!" >>, << "I" >>, << "1" >>, << "2" >> }

CaretInit == InitWith(Texts(CaretLexemes, MaxCaretUnits), {FALSE, TRUE})

CaretNext ==
  \/ Caret
  \/ Space
  \/ YieldFollowup
  \/ PlainChar
  \/ EndOfInput

CaretSpec == CaretInit /\ [][CaretNext]_vars

\* what the caret pair ^c adds to the word, for c other than I and J
CaretDecoded(c) ==
  IF c = " " THEN << "^" >>
  ELSE IF c = "M" THEN << >>
  ELSE << BOX >>

\* C24: outside a stacking command a caret pair is decoded once: caret-space
\* appends ^ to the word, ^M appends nothing, a caret before any character
\* other than I and J appends the replacement glyph; both characters of the
\* pair are consumed, so that the ^ just appended is not read again with
\* the character behind it, and the word goes on: 1^ 2 is the one WORD 1^2,
\* and ^ ! is the WORD ^!.
C24_CaretDecodedOnce ==
  /\ [][(Scanning /\ IsCaret /\ Peek(text, index, 1) \notin {"I", "J"})
          => /\ index' = index + 2
             /\ word' = word \o CaretDecoded(Peek(text, index, 1))
             /\ tokens' = tokens
             /\ pc' = "scan"]_vars
  /\ [](pc = "done" =>
          /\ text = << "1", "^", " ", "2" >>
               => tokens = << WordToken(<< "1", "^", "2" >>, ctx) >>
          /\ text = << "^", " ", "!" >>
               => tokens = << WordToken(<< "^", "!" >>, ctx) >>)

\* 1^ 2 has been parsed
C24_Witness ==
  /\ text = << "1", "^", " ", "2" >>
  /\ pc = "done"
  /\ tokens = << WordToken(<< "1", "^", "2" >>, ctx) >>


(***************************************************************************)
(* Calls from outside the parser.  The parser is constructed on the empty  *)
(* text and parse() is not called; a caller uses the exported functions,   *)
(* a TextScanner (text, index) or MTextContext objects (heap).             *)
(***************************************************************************)
\* the parser's own variables while only a caller acts
NoParser ==
  /\ yieldPropertyCommands = FALSE
  /\ ctx = 1
  /\ lastCtx = 2
  /\ ctxStack = << >>
  /\ continueStroke = FALSE
  /\ inStackContext = FALSE
  /\ word = << >>
  /\ followupToken = NUL
  /\ tokens = << >>
  /\ pc = "scan"
  /\ para = NoPara
  /\ opened = << >>

(***************************************************************************)
(* rgb2int and int2rgb.                                                    *)
(***************************************************************************)
MaxComponent == 255

\* the component values tried
Components == {0, 1, 2, 127, 128, MaxComponent - 1, MaxComponent}

ColorInit ==
  /\ NoParser
  /\ text = << >>
  /\ index = 0
  /\ heap = << DefaultContext, DefaultContext >>
  /\ tabStopsOf = << >>
  /\ call \in {[op |-> "input", rgb |-> << r, g, b >>] :
                 r \in Components, g \in Components, b \in Components}

\* v = rgb2int(c)
Rgb2intCall ==
  /\ call.op = "input"
  /\ call' = [op |-> "rgb2int", rgb |-> call.rgb, ret |-> rgb2int(call.rgb)]
  /\ UNCHANGED << text, index, heap, ctx, lastCtx, ctxStack, continueStroke,
                  yieldPropertyCommands, inStackContext, word, followupToken,
                  tokens, pc, para, opened, tabStopsOf >>

\* int2rgb(v) of the value v just computed
Int2rgbCall ==
  /\ call.op = "rgb2int"
  /\ call' = [op |-> "int2rgb", rgb |-> call.rgb, value |-> call.ret,
              ret |-> int2rgb(call.ret)]
  /\ UNCHANGED << text, index, heap, ctx, lastCtx, ctxStack, continueStroke,
                  yieldPropertyCommands, inStackContext, word, followupToken,
                  tokens, pc, para, opened, tabStopsOf >>

ColorNext ==
  \/ Rgb2intCall
  \/ Int2rgbCall

ColorSpec == ColorInit /\ [][ColorNext]_vars

\* C25: for a triple c of components in 0..255, rgb2int(c) has component 0
\* in its low byte, component 1 in its middle byte and component 2 in its
\* high byte, and int2rgb(rgb2int(c)) is c again.
C25_RgbRoundTrip ==
  /\ call.op = "rgb2int"
       => /\ call.ret % 256 = call.rgb[1]
          /\ (call.ret \div 256) % 256 = call.rgb[2]
          /\ call.ret \div 65536 = call.rgb[3]
  /\ call.op = "int2rgb" => call.ret = call.rgb

\* the round trip of (1, 128, 255) has been made
C25_Witness ==
  /\ call.op = "int2rgb"
  /\ call.rgb = << 1, 128, 255 >>
  /\ call.value = 16744449
  /\ call.ret = << 1, 128, 255 >>


(***************************************************************************)
(* MTextContext objects in the hands of a caller: new, the aci and rgb     *)
(* setters, copy(), and writes into the objects a context refers to.       *)
(***************************************************************************)
MaxContexts == 4
MaxListLen == 1

\* the values a caller assigns to aci
AciValues == {-1, 0, 256, 257}

\* the contexts of the caller: the first two of the heap are the parser's
CallerContexts == 3..Len(heap)

ContextInit ==
  /\ NoParser
  /\ text = << >>
  /\ index = 0
  /\ heap = << DefaultContext, DefaultContext >>
  /\ tabStopsOf = << 1, 1 >>
  /\ call = NoCall

\* what stays when a caller acts on contexts
NoScanning ==
  UNCHANGED << text, index, ctx, lastCtx, ctxStack, continueStroke,
               yieldPropertyCommands, inStackContext, word, followupToken,
               tokens, pc, para, opened >>

\* new MTextContext()
NewContext ==
  /\ Len(heap) < MaxContexts
  /\ heap' = Append(heap, DefaultContext)
  /\ tabStopsOf' = Append(tabStopsOf, Len(heap) + 1)
  /\ call' = [op |-> "new", ret |-> Len(heap) + 1]
  /\ NoScanning

\* c.aci = value
SetAciCall ==
  \E r \in CallerContexts, value \in AciValues :
    LET s == SetAci(heap[r], value)
    IN /\ heap' = [heap EXCEPT ![r] = s.ctx]
       /\ call' = [op |-> "aci", ref |-> r, value |-> value, throws |-> s.throws]
       /\ UNCHANGED tabStopsOf
       /\ NoScanning

\* an array no context of h refers to
FreshArray(h) ==
  CHOOSE a \in 1..(Len(h) + 1) : \A q \in DOMAIN h : h[q].rgb.id # a

\* c.rgb = [1, 0, 0], a new array
SetRgbCall ==
  \E r \in CallerContexts :
    /\ heap' = [heap EXCEPT ![r].rgb = [id |-> FreshArray(heap), val |-> << 1, 0, 0 >>]]
    /\ call' = [op |-> "rgb", ref |-> r]
    /\ UNCHANGED tabStopsOf
    /\ NoScanning

\* copy of c: the new object, and the tab-stop array it refers to, which is
\* the one of c, since { ...this.paragraph } copies the reference
CopyCall ==
  \E r \in CallerContexts :
    /\ Len(heap) < MaxContexts
    /\ heap' = Copy(heap, r).heap
    /\ tabStopsOf' = Append(tabStopsOf, tabStopsOf[r])
    /\ call' = [op |-> "copy", ref |-> r, ret |-> Copy(heap, r).ref]
    /\ NoScanning

\* c.fontFace.family = 'A'
WriteFontFamily ==
  \E r \in CallerContexts :
    /\ heap[r].fontFace.family = << >>
    /\ heap' = [heap EXCEPT ![r].fontFace.family = << "A" >>]
    /\ call' = [op |-> "write", ref |-> r, field |-> "fontFace"]
    /\ UNCHANGED tabStopsOf
    /\ NoScanning

\* c.paragraph.indent = 2
WriteIndent ==
  \E r \in CallerContexts :
    /\ heap[r].paragraph.indent = Num(0)
    /\ heap' = [heap EXCEPT ![r].paragraph.indent = Num(2)]
    /\ call' = [op |-> "write", ref |-> r, field |-> "paragraph"]
    /\ UNCHANGED tabStopsOf
    /\ NoScanning

\* c.paragraph.tab_stops.push(1): the array is changed, and with it what
\* every context referring to it shows
PushTabStop ==
  \E r \in CallerContexts :
    /\ Len(heap[r].paragraph.tab_stops) < MaxListLen
    /\ heap' = [q \in DOMAIN heap |->
                  IF tabStopsOf[q] = tabStopsOf[r]
                  THEN [heap[q] EXCEPT !.paragraph.tab_stops = Append(@, Num(1))]
                  ELSE heap[q]]
    /\ call' = [op |-> "write", ref |-> r, field |-> "tab_stops"]
    /\ UNCHANGED tabStopsOf
    /\ NoScanning

\* c.rgb[0] = 9: the array is changed, and with it what every context
\* referring to it shows
WriteRgbComponent ==
  \E r \in CallerContexts :
    /\ heap[r].rgb # NullRgb
    /\ heap[r].rgb.val[1] # 9
    /\ heap' = [q \in DOMAIN heap |->
                  IF heap[q].rgb.id = heap[r].rgb.id
                  THEN [heap[q] EXCEPT !.rgb.val[1] = 9]
                  ELSE heap[q]]
    /\ call' = [op |-> "write", ref |-> r, field |-> "rgb"]
    /\ UNCHANGED tabStopsOf
    /\ NoScanning

ContextNext ==
  \/ NewContext
  \/ SetAciCall
  \/ SetRgbCall
  \/ CopyCall
  \/ WriteFontFamily
  \/ WriteIndent
  \/ PushTabStop
  \/ WriteRgbComponent

ContextSpec == ContextInit /\ [][ContextNext]_vars

\* C26: assigning aci a value outside 0..256 fails and leaves the context
\* as it was, aci and rgb included; assigning a value of 0..256 does not
\* fail.
C26_AciOutOfRange ==
  [][call'.op = "aci"
       => /\ call'.throws <=> (call'.value < 0 \/ call'.value > 256)
          /\ call'.throws => heap' = heap]_vars

\* a context with an RGB colour has been assigned the aci 257
C26_Witness ==
  /\ call.op = "aci"
  /\ call.value = 257
  /\ call.throws
  /\ heap[call.ref].aci = 7
  /\ heap[call.ref].rgb.val = << 1, 0, 0 >>


\* what a context shows: its fields, the RGB triple by its components
Shown(c) == [c EXCEPT !.rgb = c.rgb.val]

\* C27: copy() gives a deep, independent snapshot: the copy is a new object
\* whose fields equal those of the original, and no later write made
\* through one context (to its font descriptor, to its paragraph
\* properties, to the tab-stop list or to the RGB triple) changes what any
\* other context shows.
C27_CopyIsIndependent ==
  [][/\ call'.op = "copy"
          => /\ call'.ret \notin DOMAIN heap
             /\ Shown(heap'[call'.ret]) = Shown(heap[call'.ref])
             /\ \A q \in DOMAIN heap : heap'[q] = heap[q]
     /\ call'.op = "write"
          => \A q \in DOMAIN heap \ {call'.ref} : Shown(heap'[q]) = Shown(heap[q])]_vars


(***************************************************************************)
(* A TextScanner in the hands of a caller.                                 *)
(***************************************************************************)
MaxScannerUnits == 4
MaxCount == 5

ScannerLexemes == { << "a" >>, << ";" >>, << BACKSLASH >> }

\* new TextScanner(text)
ScannerInit ==
  /\ NoParser
  /\ text \in Texts(ScannerLexemes, MaxScannerUnits)
  /\ index = 0
  /\ heap = << DefaultContext, DefaultContext >>
  /\ tabStopsOf = << >>
  /\ call = NoCall

\* what stays when a caller acts on the scanner
NoParsing ==
  UNCHANGED << text, heap, ctx, lastCtx, ctxStack, continueStroke,
               yieldPropertyCommands, inStackContext, word, followupToken,
               tokens, pc, para, opened, tabStopsOf >>

\* scanner.get()
GetCall ==
  /\ index' = Get(text, index).index
  /\ call' = [op |-> "get", from |-> index, ret |-> Get(text, index).char]
  /\ NoParsing

\* scanner.consume(count)
ConsumeCall ==
  \E count \in (0 - MaxCount)..MaxCount :
    /\ index' = Consume(text, index, count)
    /\ call' = [op |-> "consume", from |-> index, count |-> count]
    /\ NoParsing

\* scanner.peek(offset)
PeekCall ==
  \E offset \in (0 - MaxCount)..MaxCount :
    /\ index' = index
    /\ call' = [op |-> "peek", from |-> index, offset |-> offset,
                ret |-> Peek(text, index, offset)]
    /\ NoParsing

\* scanner.find(char, escape)
FindCall ==
  \E char \in {"a", ";"}, escape \in BOOLEAN :
    /\ index' = index
    /\ call' = [op |-> "find", from |-> index, char |-> char, escape |-> escape,
                ret |-> Find(text, index, char, escape)]
    /\ NoParsing

ScannerNext ==
  \/ GetCall
  \/ ConsumeCall
  \/ PeekCall
  \/ FindCall

ScannerSpec == ScannerInit /\ [][ScannerNext]_vars

\* C28: after any sequence of get(), consume(n) for any integer n, peek(k)
\* and find(...) the index is within 0..length; peek and find leave the
\* index alone; peek gives the empty string for a position outside the
\* text; get() at the end gives the empty string and does not advance.
C28_ScannerStaysInside ==
  /\ [](0 <= index /\ index <= Len(text))
  /\ [][/\ call'.op \in {"peek", "find"} => index' = index
        /\ (/\ call'.op = "peek"
            /\ (index + call'.offset < 0 \/ index + call'.offset >= Len(text)))
             => call'.ret = NUL
        /\ (call'.op = "get" /\ index >= Len(text))
             => (call'.ret = NUL /\ index' = index)]_vars

\* consume(-3) at index 2 has brought the scanner back to the start
C28_Witness ==
  /\ call.op = "consume"
  /\ call.from = 2
  /\ call.count = -3
  /\ index = 0

\* the index of the first char of t at or behind i that is not the second
\* character of a pair backslash-character, or -1
RECURSIVE FirstUnescaped(_, _, _)
FirstUnescaped(t, i, char) ==
  IF i >= Len(t) THEN -1
  ELSE IF t[i + 1] = BACKSLASH THEN FirstUnescaped(t, i + 2, char)
  ELSE IF t[i + 1] = char THEN i
  ELSE FirstUnescaped(t, i + 1, char)

\* C29: find(char, true) skips each pair of a backslash and the character
\* behind it as a unit: it returns the index of the first char at or behind
\* the cursor that is not the second character of such a pair, and -1 when
\* there is none.
C29_FindSkipsEscapedPairs ==
  [][(call'.op = "find" /\ call'.escape)
       => call'.ret = FirstUnescaped(text, index, call'.char)]_vars


(***************************************************************************)
(* The multi-byte commands \M+xxxx and \m+xxxx.                            *)
(***************************************************************************)
MaxMultiByteUnits == 5

MultiByteLexemes ==
  { << BACKSLASH, "M" >>, << BACKSLASH, "m" >>, << "+" >>, << "C", "4" >>,
    << "X" >>, << "E" >> }

MultiByteInit == InitWith(Texts(MultiByteLexemes, MaxMultiByteUnits), {FALSE, TRUE})

MultiByteNext ==
  \/ MultiByteCommand
  \/ PlainChar
  \/ EndOfInput

MultiByteSpec == MultiByteInit /\ [][MultiByteNext]_vars

\* the parser reads \M or \m with no word pending, and what follows is not
\* a + and four hexadecimal digits
AtInvalidMultiByte ==
  /\ Scanning
  /\ IsCommand
  /\ cmd \in {"m", "M"}
  /\ word = << >>
  /\ ~(Peek(text, index, 2) = "+" /\ \A k \in 3..6 : Peek(text, index, k) \in HexDigits)

\* C30: a \M or \m without + and four hexadecimal digits behind it is
\* literal text: its two characters start the word as they stand in the
\* input, nothing behind them is skipped, no token is produced and the
\* context stays; so \M+C4 is the WORD \M+C4.
C30_InvalidMultiByteIsLiteral ==
  /\ [][AtInvalidMultiByte
          => /\ word' = << BACKSLASH, cmd >>
             /\ index' = index + 2
             /\ tokens' = tokens
             /\ heap'[ctx'] = heap[ctx]]_vars
  /\ []((pc = "done" /\ text = << BACKSLASH, "M", "+", "C", "4" >>)
          => tokens = << WordToken(<< BACKSLASH, "M", "+", "C", "4" >>, ctx) >>)


(***************************************************************************)
(* Literal control characters.                                             *)
(***************************************************************************)
MaxControlUnits == 5

ControlLexemes == { << "\r" >>, << "\t" >>, << " " >>, << "a" >>, << "b" >> }

ControlInit == InitWith(Texts(ControlLexemes, MaxControlUnits), {FALSE, TRUE})

ControlNext ==
  \/ ControlChar
  \/ Space
  \/ YieldFollowup
  \/ PlainChar
  \/ EndOfInput

ControlSpec == ControlInit /\ [][ControlNext]_vars

\* C31: a control character other than tab and newline is one ordinary
\* space: it ends the pending word, which is followed by a SPACE token, or
\* gives a SPACE token itself, and it consumes itself only, so that the
\* character behind it is read next.
C31_ControlCharIsOneSpace ==
  [][(Scanning /\ letter \in ControlChars \ {"\t", "\n"})
       => /\ index' = index + 1
          /\ Len(tokens') = Len(tokens) + 1
          /\ IF word # << >>
             THEN LastToken(tokens') = WordToken(word, ctx) /\ followupToken' = "SPACE"
             ELSE LastToken(tokens') = Token("SPACE", ctx)]_vars


(***************************************************************************)
(* Words and the context they carry (GroupSpec).                           *)
(***************************************************************************)
\* the step about to be taken reads a property command or an unescaped brace
AtContextChange ==
  /\ Scanning
  /\ \/ IsCommand /\ cmd \in PropertyLetters
     \/ letter \in {"{", "}"}

\* C32: a WORD carries the context that was current while its characters
\* were scanned: while a word is pending, and in a step that leaves one
\* pending, neither the current context nor the group stack changes; a
\* property command or unescaped brace that meets a pending word yields the
\* word with the current context and is not consumed; and every WORD is
\* yielded with the context current before the step that yields it.
C32_WordsCarryTheirContext ==
  [][/\ (word # << >> \/ word' # << >>)
          => /\ ctx' = ctx
             /\ heap'[ctx'] = heap[ctx]
             /\ ctxStack' = ctxStack
     /\ (AtContextChange /\ word # << >>)
          => /\ NewTokens = << WordToken(word, ctx) >>
             /\ index' = index
     /\ \A k \in 1..Len(NewTokens) :
          NewTokens[k].type = "WORD"
            => /\ NewTokens[k].ctx = ctx
               /\ heap'[ctx] = heap[ctx]]_vars

\* a\La was parsed: the first a without, the second with the underline
C32_Witness ==
  /\ pc = "done"
  /\ text = << "a", BACKSLASH, "L", "a" >>
  /\ Len(tokens) = 2
  /\ tokens[1].word = << "a" >>
  /\ heap[tokens[1].ctx] = DefaultContext
  /\ tokens[2].word = << "a" >>
  /\ Underline(heap[tokens[2].ctx])
  /\ ~yieldPropertyCommands


(***************************************************************************)
(* The depth of the group stack (GroupSpec).                               *)
(***************************************************************************)
\* the unescaped { of t in front of position k, minus the unescaped } met
\* at a count above zero; d is the count reached at position from
RECURSIVE BraceDepth(_, _, _, _)
BraceDepth(t, from, k, d) ==
  IF from >= k THEN d
  ELSE IF t[from + 1] = BACKSLASH THEN BraceDepth(t, from + 2, k, d)
  ELSE IF t[from + 1] = "{" THEN BraceDepth(t, from + 1, k, d + 1)
  ELSE IF t[from + 1] = "}" /\ d > 0 THEN BraceDepth(t, from + 1, k, d - 1)
  ELSE BraceDepth(t, from + 1, k, d)

\* C33: after any prefix of the input the depth of the group stack is the
\* number of unescaped { read minus the number of unescaped } read while
\* the stack was not empty, and is not negative; a } read with the stack
\* empty is consumed, leaves the current context and the stack as they
\* are and yields no token.
C33_GroupStackDepth ==
  /\ [](/\ Len(ctxStack) >= 0
        /\ Len(ctxStack) = BraceDepth(text, 0, index, 0))
  /\ [][(Scanning /\ letter = "}" /\ word = << >> /\ ctxStack = << >>)
          => /\ index' = index + 1
             /\ ctx' = ctx
             /\ heap'[ctx'] = heap[ctx]
             /\ ctxStack' = << >>
             /\ tokens' = tokens
             /\ pc' = "scan"]_vars

\* }{{ was read: the } at the empty stack counted for nothing, two groups
\* are open
C33_Witness ==
  /\ Len(text) >= 3
  /\ SubSeq(text, 1, 3) = << "}", "{", "{" >>
  /\ index = 3
  /\ Len(ctxStack) = 2
  /\ tokens = << >>


(***************************************************************************)
(* Strokes.                                                                *)
(***************************************************************************)
MaxStrokeUnits == 4

StrokeLexemes ==
  { << BACKSLASH, "L" >>, << BACKSLASH, "l" >>, << BACKSLASH, "O" >>,
    << BACKSLASH, "o" >>, << BACKSLASH, "K" >>, << BACKSLASH, "k" >>,
    << BACKSLASH, "C", "1" >>, << "{" >>, << "}" >>, << "a" >> }

StrokeInit == InitWith(Texts(StrokeLexemes, MaxStrokeUnits), {FALSE, TRUE})

StrokeNext ==
  \/ PropertyCommand
  \/ BraceOpen
  \/ BraceClose
  \/ PlainChar
  \/ EndOfInput

StrokeSpec == StrokeInit /\ [][StrokeNext]_vars

\* the stroke a stroke command is about
StrokeOf(c) ==
  CASE c \in {"L", "l"} -> UNDERLINE
    [] c \in {"O", "o"} -> OVERLINE
    [] c \in {"K", "k"} -> STRIKE_THROUGH

\* C34: every context attached to a token has continueStroke = (underline
\* or overline or strikeThrough); and each of \L \l \O \o \K \k sets or
\* clears its own stroke and leaves every other field but the derived
\* continueStroke as it is.
C34_ContinueStrokeIsDerived ==
  /\ [](\A k \in 1..Len(tokens) :
          LET c == heap[tokens[k].ctx]
          IN c.continueStroke <=> (Underline(c) \/ Overline(c) \/ StrikeThrough(c)))
  /\ [][(Scanning /\ IsCommand /\ cmd \in {"L", "l", "O", "o", "K", "k"} /\ word = << >>)
          => LET old == heap[ctx]
                 new == heap'[ctx']
             IN new = [old EXCEPT
                         !.stroke = IF cmd \in {"L", "O", "K"}
                                    THEN @ \cup {StrokeOf(cmd)}
                                    ELSE @ \ {StrokeOf(cmd)},
                         !.continueStroke = new.continueStroke]]_vars

\* \L\O\la was parsed: the word carries the overline alone and
\* continueStroke
C34_Witness ==
  /\ pc = "done"
  /\ text = << BACKSLASH, "L", BACKSLASH, "O", BACKSLASH, "l", "a" >>
  /\ tokens # << >>
  /\ LastToken(tokens).type = "WORD"
  /\ heap[LastToken(tokens).ctx].stroke = {OVERLINE}
  /\ heap[LastToken(tokens).ctx].continueStroke


(***************************************************************************)
(* One text parsed twice: with yieldPropertyCommands, and then without.    *)
(***************************************************************************)
MaxTwiceUnits == 4

TwiceLexemes ==
  { << BACKSLASH, "L" >>, << BACKSLASH, "l" >>, << BACKSLASH, "C", "1" >>,
    << BACKSLASH, "c", "1", ";" >>, << BACKSLASH, "p", "i", "2", ";" >>,
    << "{" >>, << "}" >>, << "x" >>, << " " >> }

\* new MTextParser(text, undefined, true)
TwiceInit == InitWith(Texts(TwiceLexemes, MaxTwiceUnits), {TRUE})

\* what a consumer sees of the tokens ts: type, payload and the values of
\* the attached context
Seen(ts, h) ==
  [k \in 1..Len(ts) |->
     [type |-> ts[k].type, word |-> ts[k].word, stack |-> ts[k].stack,
      ctx |-> Shown(h[ts[k].ctx])]]

\* the first parse has ended: its tokens are kept, and
\* new MTextParser(text, undefined, false) is constructed
ParseAgain ==
  /\ pc = "done"
  /\ yieldPropertyCommands
  /\ call' = [op |-> "parse", flag |-> TRUE, ret |-> Seen(tokens, heap)]
  /\ yieldPropertyCommands' = FALSE
  /\ index' = 0
  /\ heap' = << DefaultContext, DefaultContext >>
  /\ ctx' = 1
  /\ lastCtx' = 2
  /\ ctxStack' = << >>
  /\ continueStroke' = FALSE
  /\ inStackContext' = FALSE
  /\ word' = << >>
  /\ followupToken' = NUL
  /\ tokens' = << >>
  /\ pc' = "scan"
  /\ para' = NoPara
  /\ opened' = << >>
  /\ UNCHANGED << text, tabStopsOf >>

TwiceNext ==
  \/ PropertyCommand
  \/ ParagraphCommand
  \/ ParagraphStep
  \/ ParagraphEnd
  \/ BraceOpen
  \/ BraceClose
  \/ Space
  \/ YieldFollowup
  \/ PlainChar
  \/ EndOfInput
  \/ ParseAgain

TwiceSpec == TwiceInit /\ [][TwiceNext]_vars

\* the tokens of ts other than PROPERTIES_CHANGED, in their order
RECURSIVE WithoutChanges(_)
WithoutChanges(ts) ==
  IF ts = << >> THEN << >>
  ELSE IF Head(ts).type = "PROPERTIES_CHANGED" THEN WithoutChanges(Tail(ts))
  ELSE << Head(ts) >> \o WithoutChanges(Tail(ts))

\* C35: the tokens produced with yieldPropertyCommands = true, without the
\* PROPERTIES_CHANGED tokens, are in types, payloads and context values the
\* tokens produced with yieldPropertyCommands = false, and these hold no
\* PROPERTIES_CHANGED token.
C35_FlagOnlyAddsTokens ==
  /\ ~yieldPropertyCommands
       => \A k \in 1..Len(tokens) : tokens[k].type # "PROPERTIES_CHANGED"
  /\ (pc = "done" /\ call.op = "parse")
       => Seen(tokens, heap) = WithoutChanges(call.ret)

\* both parses of a text have ended, the first with a PROPERTIES_CHANGED
\* token, the second with tokens in front of and behind a command
C35_Witness ==
  /\ pc = "done"
  /\ call.op = "parse"
  /\ \E k \in 1..Len(call.ret) : call.ret[k].type = "PROPERTIES_CHANGED"
  /\ Len(tokens) >= 2
  /\ Len(call.ret) > Len(tokens)
  /\ tokens[1].ctx # tokens[Len(tokens)].ctx
  /\ heap[tokens[1].ctx] # heap[tokens[Len(tokens)].ctx]


\* the fields a consumer holds after applying the changes ch to held
Apply(held, ch) ==
  [n \in ChangeFields |->
     IF n \notin DOMAIN ch THEN held[n]
     ELSE IF n = "rgb" THEN ch[n].val
     ELSE IF n = "paragraph"
          THEN [f \in DOMAIN held[n] |->
                  IF f \in DOMAIN ch[n] THEN ch[n][f] ELSE held[n][f]]
     ELSE ch[n]]

\* the tokens ts agree with a consumer that holds held in front of them
RECURSIVE Follows(_, _)
Follows(ts, held) ==
  \/ ts = << >>
  \/ /\ Head(ts).type = "PROPERTIES_CHANGED"
     /\ Follows(Tail(ts), Apply(held, Head(ts).changes))
  \/ /\ Head(ts).type # "PROPERTIES_CHANGED"
     /\ \A n \in ChangeFields : held[n] = FieldValue(heap[Head(ts).ctx], n)
     /\ Follows(Tail(ts), held)

\* what the consumer holds at the start: the fields of the initial context
InitialFields == [n \in ChangeFields |-> FieldValue(DefaultContext, n)]

\* C36: with yieldPropertyCommands a consumer that starts from the initial
\* context and applies the changes of every PROPERTIES_CHANGED token in
\* order holds, at every other token, the field values of the context
\* attached to that token, behind a closed brace group too.
C36_ChangesReplayContext ==
  yieldPropertyCommands => Follows(tokens, InitialFields)

\* the same for texts in which no group is closed
C36_ReplayOutsideGroups ==
  (yieldPropertyCommands /\ \A k \in 1..Len(text) : text[k] # "}")
    => Follows(tokens, InitialFields)


(***************************************************************************)
(* Texts in which the cursor is moved by every kind of scanning step.      *)
(***************************************************************************)
MaxCursorUnits == 4

CursorLexemes ==
  { << BACKSLASH, "M" >>, << BACKSLASH, "m" >>, << "+" >>, << "C", "4", "E", "2" >>,
    << BACKSLASH, "H" >>, << "2" >>, << "x" >>, << " " >>, << "\r" >>,
    << "^" >>, << "{" >>, << "}" >>, << BACKSLASH, "S" >> }

CursorInit == InitWith(Texts(CursorLexemes, MaxCursorUnits), {FALSE, TRUE})

CursorNext ==
  \/ ControlChar
  \/ Space
  \/ YieldFollowup
  \/ StackCommand
  \/ MultiByteCommand
  \/ PropertyCommand
  \/ BraceOpen
  \/ BraceClose
  \/ Caret
  \/ PlainChar
  \/ EndOfInput

CursorSpec == CursorInit /\ [][CursorNext]_vars

\* the step about to be taken reads \M+ or \m+ without four hexadecimal
\* digits behind it
AtFailedHexCode ==
  /\ AtInvalidMultiByte
  /\ word = << >>
  /\ Peek(text, index, 2) = "+"

\* C37: during a parse the cursor never moves backwards from one step to
\* the next, so it is never smaller at a token than at the token before;
\* the one rewind, behind a \M+ without a hexadecimal code, takes back the
\* '+' only and leaves the cursor behind the command.
C37_CursorAdvances ==
  [][/\ index' >= index
     /\ AtFailedHexCode => index' = index + 2]_vars

\* the '+' of a \M+ without a code has been read and given back, and a
\* token has been emitted before
C37_Witness ==
  /\ tokens # << >>
  /\ index >= 3
  /\ index < Len(text)
  /\ text[index + 1] = "+"
  /\ text[index] \in {"M", "m"}
  /\ Len(word) >= 2
  /\ SubSeq(word, Len(word) - 1, Len(word)) = << BACKSLASH, "M" >>


(***************************************************************************)
(* Paragraph commands whose arguments i, l and r take signed literals and  *)
(* literals with a leading dot.                                            *)
(***************************************************************************)
MaxFloatArgUnits == 5

FloatArgLexemes ==
  { << BACKSLASH, "p" >>, << "i" >>, << "l" >>, << "r" >>, << "." >>, << "5" >>,
    << "1" >>, << "-" >>, << ";" >> }

FloatArgInit == InitWith(Texts(FloatArgLexemes, MaxFloatArgUnits), {FALSE, TRUE})

FloatArgNext ==
  \/ ParagraphCommand
  \/ ParagraphStep
  \/ ParagraphEnd
  \/ PlainChar
  \/ EndOfInput

FloatArgSpec == FloatArgInit /\ [][FloatArgNext]_vars

\* the step about to be taken reads one of the arguments i, l and r
AtFloatArg ==
  /\ pc = "para"
  /\ HasData(para.expr, para.index)
  /\ Peek(para.expr, para.index, 0) \in {"i", "l", "r"}

\* the literal of the floating grammar of \H behind the argument letter
ArgLiteral == FloatMatch(TailOf(para.expr, para.index + 1), TRUE, FALSE)

\* the field the argument letter c names
ArgField(p, c) ==
  CASE c = "i" -> p.indent
    [] c = "l" -> p.left
    [] c = "r" -> p.right

\* C38: in a paragraph command each of the arguments i, l and r accepts
\* every literal of the floating grammar of \H, the signed forms and the
\* form with a leading '.' included, and stores its signed value in the
\* field it names.
C38_ParagraphArgsShareGrammar ==
  [][(AtFloatArg /\ ArgLiteral.len > 0)
       => /\ ArgField(para', Peek(para.expr, para.index, 0)) = ArgLiteral.value
          /\ para'.index >= para.index + 1 + ArgLiteral.len]_vars

\* the same for the literals whose mantissa starts with a digit
C38_DigitFirstLiterals ==
  [][(/\ AtFloatArg
      /\ ArgLiteral.len > 0
      /\ FloatMatch(TailOf(para.expr, para.index + 1), FALSE, FALSE).len > 0)
       => /\ ArgField(para', Peek(para.expr, para.index, 0)) = ArgLiteral.value
          /\ para'.index >= para.index + 1 + ArgLiteral.len]_vars


(***************************************************************************)
(* getFonts, and the font families the parser sets on the same text.       *)
(***************************************************************************)
MaxGetFontsUnits == 5

GetFontsLexemes ==
  { << BACKSLASH, "f" >>, << BACKSLASH, "F" >>, << "A" >>, << "a" >>,
    << "|" >>, << ";" >> }

GetFontsInit == InitWith(Texts(GetFontsLexemes, MaxGetFontsUnits), {FALSE, TRUE})

\* String.prototype.toLowerCase, on the letters of these texts
ToLowerCase(s) ==
  [k \in 1..Len(s) |->
     CASE s[k] = "A" -> "a"
       [] s[k] = "F" -> "f"
       [] OTHER -> s[k]]

\* the characters the '.' of a regular expression does not match
LineTerminators == {"\n", "\r"}

\* the matches of /\\[fF](.*?)\|/g in t from the position k on: the
\* lower-cased text between the command and the first '|' behind it
RECURSIVE GetFontsFrom(_, _)
GetFontsFrom(t, k) ==
  IF k + 2 > Len(t) THEN {}
  ELSE IF t[k] = BACKSLASH /\ t[k + 1] \in {"f", "F"}
  THEN LET bars == {j \in (k + 2)..Len(t) :
                      /\ t[j] = "|"
                      /\ \A n \in (k + 2)..(j - 1) :
                           t[n] # "|" /\ t[n] \notin LineTerminators}
       IN IF bars = {} THEN GetFontsFrom(t, k + 1)
          ELSE LET bar == CHOOSE j \in bars : TRUE
               IN {ToLowerCase(SubSeq(t, k + 2, bar - 1))} \cup GetFontsFrom(t, bar + 1)
  ELSE GetFontsFrom(t, k + 1)

getFonts(mtext) == GetFontsFrom(mtext, 1)

\* getFonts(text), called on the text that has been parsed
GetFontsCall ==
  /\ pc = "done"
  /\ call = NoCall
  /\ call' = [op |-> "getFonts", ret |-> getFonts(text)]
  /\ UNCHANGED << text, index, heap, ctx, lastCtx, ctxStack, continueStroke,
                  yieldPropertyCommands, inStackContext, word, followupToken,
                  tokens, pc, para, opened, tabStopsOf >>

GetFontsNext ==
  \/ PropertyCommand
  \/ PlainChar
  \/ EndOfInput
  \/ GetFontsCall

GetFontsSpec == GetFontsInit /\ [][GetFontsNext]_vars

\* the lower-cased families of the font descriptors the parser has set
ParsedFamilies ==
  {ToLowerCase(heap[r].fontFace.family) :
     r \in {q \in DOMAIN heap : heap[q].fontFace # DefaultContext.fontFace}}

\* C39: getFonts(text) is the set of the lower-cased families of the font
\* descriptors the parser sets while it parses text, and nothing else.
C39_GetFontsIsParsedFamilies ==
  call.op = "getFonts" => call.ret = ParsedFamilies

\* the same for the texts made of commands of the form \fA| or \FA| closed
\* by a semicolon, and of letters
C39_GetFontsOnPipedCommands ==
  (/\ call.op = "getFonts"
   /\ \A k \in 1..Len(text) :
        /\ text[k] = BACKSLASH
             => /\ k + 4 <= Len(text)
                /\ text[k + 2] \in {"A", "a"}
                /\ text[k + 3] = "|"
                /\ text[k + 4] = ";"
        /\ text[k] = "|" => k > 3 /\ text[k - 2] \in {"f", "F"} /\ text[k - 3] = BACKSLASH
        /\ text[k] = ";" => k > 1 /\ text[k - 1] = "|")
    => call.ret = ParsedFamilies

=============================================================================
